---- MODULE Spec2Model ----
(***************************************************************************)
(* A model of the ROBDD manager RobddBuilder (src/src/builder/bdd/robdd.rs) *)
(* with complement edges: the unique table, the apply cache, the per-node  *)
(* scratch slots, the time budget, and the operations built on them.       *)
(***************************************************************************)
EXTENDS Integers, Sequences, FiniteSets, TLC

VARIABLES
    nodes,        \* the arena / unique table: address i holds (var, low, high)
    scratch,      \* the scratch slot of each node
    apply_table,  \* the apply cache: normalized ite triple -> result
    order,        \* the variable order: level -> label
    time_limit,   \* NoLimit, or the number of budget checks that still pass
    lossy,        \* number of slots of a lossy apply cache, 0 for AllIteTable
    handles,      \* the BddPtrs the client holds
    nops,         \* public calls made so far
    last          \* the last public call: its name, arguments and result

vars == <<nodes, scratch, apply_table, order, time_limit, lossy, handles, nops, last>>

\* ---------------------------------------------------------------- bounds
NumVars == 3      \* variables of the linear order the manager is built with
MaxOps == 2       \* public calls made after the formula is compiled
MaxClauses == 4   \* clauses of the compiled CNF
MaxTicks == 3     \* budget checks that can pass before the time limit expires
ApplySlots == 2   \* slots of the lossy apply cache
MaxEvict == 2     \* inserts after which the apply cache can be emptied
MaxK == 2         \* paths asked of top_k_paths

\* let v be the value of an expression in F
Bind(v, F(_)) == F(v)

\* ---------------------------------------------------------------- pointers
PtrTrue == [tag |-> "T", node |-> 0]
PtrFalse == [tag |-> "F", node |-> 0]
Reg(n) == [tag |-> "R", node |-> n]
Compl(n) == [tag |-> "C", node |-> n]

is_const(p) == p.tag \in {"T", "F"}
is_true(p) == p.tag = "T"
is_false(p) == p.tag = "F"
is_neg(p) == p.tag = "C"

neg(p) ==
    CASE p.tag = "T" -> PtrFalse
      [] p.tag = "F" -> PtrTrue
      [] p.tag = "R" -> Compl(p.node)
      [] OTHER -> Reg(p.node)

\* p with the parity of the edge q applied
neg_if(q, p) == IF is_neg(q) THEN neg(p) ELSE p

low_raw(ns, p) == ns[p.node].low
high_raw(ns, p) == ns[p.node].high

BddNode(var, low, high) == [var |-> var, low |-> low, high |-> high]

\* ---------------------------------------------------------------- scratch
NoScratch == [ty |-> "none"]
NoLimit == 0 - 1

\* ---------------------------------------------------------------- order
linear_order(n) == [i \in 1..n |-> i - 1]

level(o, v) == CHOOSE i \in 1..Len(o) : o[i] = v

lt(o, a, b) == level(o, a) < level(o, b)

var_at_level(o, i) == o[i + 1]

Labels == {order[i] : i \in 1..Len(order)}

\* the number of variables in the manager
num_vars == Len(order)

\* the first of the variables vs in the order o
first_of(o, vs) == CHOOSE v \in vs : \A w \in vs : ~lt(o, w, v)

\* the minimum-order variable on top of f, g or h
first_essential(o, ns, f, g, h) ==
    first_of(o, {ns[p.node].var : p \in {q \in {f, g, h} : ~is_const(q)}})

\* ---------------------------------------------------------------- manager
\* The part of the manager an operation reads and writes, threaded through
\* the recursive calls. slots and evict describe the apply cache (see
\* apply_insert); calls is the record of the get_or_insert calls made, trace
\* the record of the expansions of ite_helper, depth the number of
\* expansions of ite_helper that are on the stack, visits the record of the
\* pointers cond_with_alloc was called on with what it returned.
Manager == [nodes |-> nodes, scratch |-> scratch, apply_table |-> apply_table,
            left |-> time_limit, panic |-> FALSE,
            slots |-> lossy, evict |-> 0, calls |-> {}, trace |-> <<>>, depth |-> 0,
            visits |-> {}]

\* the result r of an operation that left the manager m
Ret(m, r) == [m |-> m, r |-> r]

Panic(m, r) == [m |-> [m EXCEPT !.panic = TRUE], r |-> r]

\* BackedRobinhoodTable::get_or_insert: the address of the canonical copy
tbl_get_or_insert(m, n) ==
    IF \E i \in 1..Len(m.nodes) : m.nodes[i] = n
    THEN [m |-> m, idx |-> CHOOSE i \in 1..Len(m.nodes) : m.nodes[i] = n]
    ELSE [m |-> [m EXCEPT !.nodes = Append(@, n),
                          !.scratch = Append(@, NoScratch)],
          idx |-> Len(m.nodes) + 1]

\* a get_or_insert call: the node asked for and the pointer returned
GoiCall(var, low, high, r) == [var |-> var, low |-> low, high |-> high, r |-> r]

recorded(m, var, low, high, r) ==
    Ret([m EXCEPT !.calls = @ \cup {GoiCall(var, low, high, r)}], r)

\* get_or_insert that stores the node as given
get_or_insert_plain(m, var, low, high) ==
    Bind(tbl_get_or_insert(m, BddNode(var, low, high)),
         LAMBDA t : recorded(t.m, var, low, high, Reg(t.idx)))

\* the manager with the node n allocated at a new address
allocated(m, n) == [m EXCEPT !.nodes = Append(@, n), !.scratch = Append(@, NoScratch)]

\* get_or_insert that allocates a node without looking for its copy
get_or_insert_fresh(m, var, low, high) ==
    IF is_neg(high) \/ is_false(high)
    THEN recorded(allocated(m, BddNode(var, neg(low), neg(high))), var, low, high,
                  Compl(Len(m.nodes) + 1))
    ELSE recorded(allocated(m, BddNode(var, low, high)), var, low, high,
                  Reg(Len(m.nodes) + 1))

get_or_insert(m, var, low, high) ==
    IF is_neg(high) \/ is_false(high)
    THEN Bind(tbl_get_or_insert(m, BddNode(var, neg(low), neg(high))),
              LAMBDA t : recorded(t.m, var, low, high, Compl(t.idx)))
    ELSE Bind(tbl_get_or_insert(m, BddNode(var, low, high)),
              LAMBDA t : recorded(t.m, var, low, high, Reg(t.idx)))

check_time_limit(m) ==
    IF m.left = NoLimit THEN [m |-> m, expired |-> FALSE]
    ELSE IF m.left > 0 THEN [m |-> [m EXCEPT !.left = @ - 1], expired |-> FALSE]
    ELSE [m |-> m, expired |-> TRUE]

\* ---------------------------------------------------------------- ite triples
\* the closure o of ite_helper: constants first, then by the order of the tops
o(ns, a, b) ==
    IF is_const(a) THEN TRUE
    ELSE IF is_const(b) THEN FALSE
    ELSE lt(order, ns[a.node].var, ns[b.node].var)

IteConst(p) == [kind |-> "IteConst", f |-> p, g |-> p, h |-> p]
IteChoice(f, g, h) == [kind |-> "IteChoice", f |-> f, g |-> g, h |-> h]

\* terminal shortcuts of a triple, <<>> when there is none
ite_terminal(f, g, h) ==
    IF is_true(f) THEN <<g>>
    ELSE IF is_false(f) THEN <<h>>
    ELSE IF g = h THEN <<g>>
    ELSE IF is_true(g) /\ is_false(h) THEN <<f>>
    ELSE IF is_false(g) /\ is_true(h) THEN <<neg(f)>>
    ELSE <<>>

\* ite(f,f,h) = ite(f,T,h), ite(f,g,f) = ite(f,g,F), ite(f,g,~f) = ite(f,g,T), ...
ite_constants(f, g, h) ==
    <<f,
      IF g = f THEN PtrTrue ELSE IF g = neg(f) THEN PtrFalse ELSE g,
      IF h = f THEN PtrFalse ELSE IF h = neg(f) THEN PtrTrue ELSE h>>

\* operand reordering: the operand that comes first in the order goes first
ite_reorder(ns, f, g, h) ==
    IF is_true(g) /\ o(ns, h, f) THEN <<h, g, f>>
    ELSE IF is_false(h) /\ o(ns, g, f) THEN <<g, f, h>>
    ELSE IF is_true(h) /\ o(ns, g, f) THEN <<neg(g), neg(f), h>>
    ELSE IF is_false(g) /\ o(ns, h, f) THEN <<neg(h), g, neg(f)>>
    ELSE IF g = neg(h) /\ o(ns, g, f) THEN <<g, f, neg(f)>>
    ELSE <<f, g, h>>

\* complement-edge pull: ite(~f', g, h) = ite(f', h, g)
ite_pull(f, g, h) == IF is_neg(f) THEN <<neg(f), h, g>> ELSE <<f, g, h>>

\* the triple c, or the constant t it reduces to
ite_of(t, c) == IF t # <<>> THEN IteConst(t[1]) ELSE IteChoice(c[1], c[2], c[3])

\* Ite::new
Ite_new(ns, f, g, h) ==
    Bind(ite_terminal(f, g, h), LAMBDA t0 :
        IF t0 # <<>> THEN IteConst(t0[1])
        ELSE Bind(ite_constants(f, g, h), LAMBDA a :
             Bind(ite_reorder(ns, a[1], a[2], a[3]), LAMBDA b :
             Bind(ite_pull(b[1], b[2], b[3]), LAMBDA c :
                ite_of(ite_terminal(c[1], c[2], c[3]), c)))))

\* ---------------------------------------------------------------- apply cache
ptr_bits(p) == 2 * p.node + (IF p.tag \in {"C", "F"} THEN 1 ELSE 0)

ite_key(ite) == <<ite.f, ite.g, ite.h>>

key_hash(k) == ptr_bits(k[1]) + 3 * ptr_bits(k[2]) + 5 * ptr_bits(k[3])

\* IteTable::hash
ite_hash(ite) == key_hash(ite_key(ite))

\* IteTable::get: <<>> for a miss
apply_get(m, ite, hash) ==
    IF ite_key(ite) \in DOMAIN m.apply_table
    THEN <<m.apply_table[ite_key(ite)]>> ELSE <<>>

\* the keys the table keeps when an entry of this hash is inserted
kept_keys(m, hash) ==
    IF m.slots = 0 THEN DOMAIN m.apply_table
    ELSE {k \in DOMAIN m.apply_table : key_hash(k) % m.slots # hash % m.slots}

\* IteTable::insert. A table of 0 slots is the AllIteTable, which keeps every
\* entry; a table of m.slots slots overwrites the entry that shares the slot.
\* When m.evict counts down to its last insert the whole table is lost.
apply_insert(m, ite, res, hash) ==
    IF m.evict = 1 THEN [m EXCEPT !.apply_table = <<>>, !.evict = 0]
    ELSE [m EXCEPT !.apply_table =
                    [k \in kept_keys(m, hash) \cup {ite_key(ite)} |->
                        IF k = ite_key(ite) THEN res ELSE m.apply_table[k]],
                   !.evict = IF @ > 1 THEN @ - 1 ELSE @]

\* ---------------------------------------------------------------- ite
\* condition_essential that drops the complement of the edge f
condition_essential_raw(ns, f, lbl, v) ==
    IF is_const(f) THEN f
    ELSE IF ns[f.node].var # lbl THEN f
    ELSE IF v THEN high_raw(ns, f) ELSE low_raw(ns, f)

\* condition a BDD only if its top variable is lbl
condition_essential(ns, f, lbl, v) ==
    IF is_const(f) THEN f
    ELSE IF ns[f.node].var # lbl THEN f
    ELSE neg_if(f, IF v THEN high_raw(ns, f) ELSE low_raw(ns, f))

\* the new node entered in the apply cache without the complement of its edge
ite_insert_stored(gi, ite, hash) ==
    Ret(apply_insert(gi.m, ite, Reg(gi.r.node), hash), gi.r)

\* the new node of ite_helper, entered in the apply cache
ite_insert(gi, ite, hash) == Ret(apply_insert(gi.m, ite, gi.r, hash), gi.r)

\* the tail of ite_helper without the reduction of equal branches
ite_finish_unreduced(m, ite, hash, lbl, t, f) ==
    Bind(check_time_limit(m), LAMBDA c :
        IF c.expired THEN Ret(c.m, PtrFalse)
        ELSE ite_insert(get_or_insert(c.m, lbl, f, t), ite, hash))

\* the tail of ite_helper with the branches of the new node exchanged
ite_finish_swapped(m, ite, hash, lbl, t, f) ==
    IF t = f THEN Ret(apply_insert(m, ite, t, hash), t)
    ELSE Bind(check_time_limit(m), LAMBDA c :
            IF c.expired THEN Ret(c.m, PtrFalse)
            ELSE ite_insert(get_or_insert(c.m, lbl, t, f), ite, hash))

\* the tail of ite_helper once both branches are computed
ite_finish(m, ite, hash, lbl, t, f) ==
    IF t = f THEN Ret(apply_insert(m, ite, t, hash), t)
    ELSE Bind(check_time_limit(m), LAMBDA c :
            IF c.expired THEN Ret(c.m, PtrFalse)
            ELSE ite_insert(get_or_insert(c.m, lbl, f, t), ite, hash))

RECURSIVE ite_helper(_, _, _, _)
\* ite_expand whose low cofactor of h is taken on the high side
ite_expand_hx(m, ite, hash, lbl, f, g, h) ==
    Bind(ite_helper(m, condition_essential(m.nodes, f, lbl, TRUE),
                       condition_essential(m.nodes, g, lbl, TRUE),
                       condition_essential(m.nodes, h, lbl, TRUE)), LAMBDA t :
    Bind(ite_helper(t.m, condition_essential(m.nodes, f, lbl, FALSE),
                         condition_essential(m.nodes, g, lbl, FALSE),
                         condition_essential(m.nodes, h, lbl, TRUE)), LAMBDA e :
        ite_finish(e.m, ite, hash, lbl, t.r, e.r)))

\* an expansion of ite_helper: the normalized triple, the variable and the
\* operands it was made on, and its depth on the stack
Expansion(ite, lbl, f, g, h, depth) ==
    [key |-> ite_key(ite), lbl |-> lbl, f |-> f, g |-> g, h |-> h, depth |-> depth]

\* the manager on entry to an expansion, and on return from it
entered(m, ite, lbl, f, g, h) ==
    [m EXCEPT !.depth = @ + 1,
              !.trace = Append(@, Expansion(ite, lbl, f, g, h, m.depth + 1))]

returned(m) == [m EXCEPT !.depth = @ - 1]

\* the two recursive calls of ite_helper on the cofactors by lbl
ite_expand(m, ite, hash, lbl, f, g, h) ==
    Bind(ite_helper(entered(m, ite, lbl, f, g, h),
                    condition_essential(m.nodes, f, lbl, TRUE),
                    condition_essential(m.nodes, g, lbl, TRUE),
                    condition_essential(m.nodes, h, lbl, TRUE)), LAMBDA t :
    Bind(ite_helper(t.m, condition_essential(m.nodes, f, lbl, FALSE),
                         condition_essential(m.nodes, g, lbl, FALSE),
                         condition_essential(m.nodes, h, lbl, FALSE)), LAMBDA e :
        ite_finish(returned(e.m), ite, hash, lbl, t.r, e.r)))

\* ite_probe that expands the triple without looking it up in the apply cache
ite_probe_blind(m, ite, hash, f, g, h) ==
    ite_expand(m, ite, hash, first_essential(order, m.nodes, f, g, h), f, g, h)

\* ite_probe that expands on the variable of f, not on the first essential one
ite_probe_top(m, ite, hash, f, g, h) ==
    Bind(apply_get(m, ite, hash), LAMBDA hit :
        IF hit # <<>> THEN Ret(m, hit[1])
        ELSE ite_expand(m, ite, hash,
                        IF is_const(f) THEN first_essential(order, m.nodes, f, g, h)
                        ELSE m.nodes[f.node].var, f, g, h))

\* ite_helper after the first time check, on the normalized triple ite
ite_probe(m, ite, hash, f, g, h) ==
    Bind(apply_get(m, ite, hash), LAMBDA hit :
        IF hit # <<>> THEN Ret(m, hit[1])
        ELSE ite_expand(m, ite, hash, first_essential(order, m.nodes, f, g, h), f, g, h))

ite_normalized(m, ite, f, g, h) ==
    IF ite.kind = "IteConst" THEN Ret(m, ite.f)
    ELSE ite_probe(m, ite, ite_hash(ite), f, g, h)

\* ite_helper with the time check placed after the normalization
ite_helper_late(m, f, g, h) ==
    Bind(Ite_new(m.nodes, f, g, h), LAMBDA ite :
        IF ite.kind = "IteConst" THEN Ret(m, ite.f)
        ELSE Bind(check_time_limit(m), LAMBDA c0 :
            IF c0.expired THEN Ret(c0.m, PtrFalse)
            ELSE ite_probe(c0.m, ite, ite_hash(ite), f, g, h)))

ite_helper(m, f, g, h) ==
    Bind(check_time_limit(m), LAMBDA c0 :
        IF c0.expired THEN Ret(c0.m, PtrFalse)
        ELSE ite_normalized(c0.m, Ite_new(c0.m.nodes, f, g, h), f, g, h))

\* ---------------------------------------------------------------- connectives
\* BottomUpBuilder: every connective is an ite
ite(m, f, g, h) == ite_helper(m, f, g, h)
and(m, a, b) == ite(m, a, b, PtrFalse)
or(m, a, b) == ite(m, a, PtrTrue, b)
iff(m, a, b) == ite(m, a, b, neg(b))
xor(m, a, b) == ite(m, a, neg(b), b)
negate(a) == neg(a)

\* the pointer of the variable node gi, or its complement
var_ptr(gi, polarity) == Ret(gi.m, IF polarity THEN gi.r ELSE neg(gi.r))

var(m, label, polarity) == var_ptr(get_or_insert(m, label, PtrFalse, PtrTrue), polarity)

\* ---------------------------------------------------------------- scratch
Usize(i) == [ty |-> "usize", v |-> i]

set_scratch(m, p, val) == [m EXCEPT !.scratch[p.node] = val]

RECURSIVE reachable(_, _)
reachable(ns, p) ==
    IF is_const(p) THEN {}
    ELSE {p.node} \cup reachable(ns, ns[p.node].low) \cup reachable(ns, ns[p.node].high)

\* the scratch with the slots of the nodes R emptied
cleared(sc, R) == [i \in DOMAIN sc |-> IF i \in R THEN NoScratch ELSE sc[i]]

\* BddPtr::clear_scratch: empties the scratch slot of every node of the BDD
clear_scratch(m, p) == [m EXCEPT !.scratch = cleared(@, reachable(m.nodes, p))]

\* the result of a walk over bdd, its scratch cleared
cleared_after(res, bdd) == Ret(clear_scratch(res.m, bdd), res.r)

\* ---------------------------------------------------------------- condition
CondRet(m, alloc, r) == [m |-> m, alloc |-> alloc, r |-> r]

\* the cached result returned without the parity of the edge bdd
cond_cached_plain(m, bdd, alloc, v) ==
    IF v.ty # "usize" \/ v.v >= Len(alloc)
    THEN CondRet([m EXCEPT !.panic = TRUE], alloc, bdd)
    ELSE CondRet(m, alloc, alloc[v.v + 1])

\* cond_with_alloc on a node whose scratch holds v
cond_cached(m, bdd, alloc, v) ==
    IF v.ty # "usize" \/ v.v >= Len(alloc)
    THEN CondRet([m EXCEPT !.panic = TRUE], alloc, bdd)
    ELSE CondRet(m, alloc, neg_if(bdd, alloc[v.v + 1]))

\* cond_store that pushes the result with the parity of the edge bdd
cond_store_as_is(m, bdd, alloc, res) ==
    CondRet(set_scratch(m, bdd, Usize(Len(alloc))), Append(alloc, res), res)

\* push the result res of bdd onto alloc and keep its index in the scratch
cond_store(m, bdd, alloc, res) ==
    CondRet(set_scratch(m, bdd, Usize(Len(alloc))), Append(alloc, neg_if(bdd, res)), res)

\* cond_with_alloc once both children l.r and h.r are conditioned
\* cond_build that forgets the complement of the edge on equal children
cond_build_raw(h, bdd, node, l) ==
    IF l = h.r THEN CondRet(h.m, h.alloc, l)
    ELSE IF l # node.low \/ h.r # node.high
    THEN Bind(get_or_insert(h.m, node.var, l, h.r), LAMBDA gi :
            cond_store(gi.m, bdd, h.alloc, neg_if(bdd, gi.r)))
    ELSE cond_store(h.m, bdd, h.alloc, bdd)

cond_build(h, bdd, node, l) ==
    IF l = h.r THEN CondRet(h.m, h.alloc, neg_if(bdd, l))
    ELSE IF l # node.low \/ h.r # node.high
    THEN Bind(get_or_insert(h.m, node.var, l, h.r), LAMBDA gi :
            cond_store(gi.m, bdd, h.alloc, neg_if(bdd, gi.r)))
    ELSE cond_store(h.m, bdd, h.alloc, bdd)

RECURSIVE cond_with_alloc(_, _, _, _, _)
\* the recursion of cond_with_alloc on the children of node
cond_children(m, bdd, node, lbl, value, alloc) ==
    Bind(cond_with_alloc(m, node.low, lbl, value, alloc), LAMBDA l :
        cond_build(cond_with_alloc(l.m, node.high, lbl, value, l.alloc), bdd, node, l.r))

\* cond_node that takes the nodes above lbl for the nodes below it
cond_node_above(m, bdd, node, lbl, value, alloc) ==
    IF lt(order, node.var, lbl) THEN CondRet(m, alloc, bdd)
    ELSE IF node.var = lbl
    THEN CondRet(m, alloc, neg_if(bdd, IF value THEN node.high ELSE node.low))
    ELSE IF m.scratch[bdd.node].ty # "none"
    THEN cond_cached(m, bdd, alloc, m.scratch[bdd.node])
    ELSE cond_children(m, bdd, node, lbl, value, alloc)

\* cond_node that takes the high child whatever the value is
cond_node_high(m, bdd, node, lbl, value, alloc) ==
    IF lt(order, lbl, node.var) THEN CondRet(m, alloc, bdd)
    ELSE IF node.var = lbl
    THEN CondRet(m, alloc, neg_if(bdd, node.high))
    ELSE IF m.scratch[bdd.node].ty # "none"
    THEN cond_cached(m, bdd, alloc, m.scratch[bdd.node])
    ELSE cond_children(m, bdd, node, lbl, value, alloc)

cond_node(m, bdd, node, lbl, value, alloc) ==
    IF lt(order, lbl, node.var) THEN CondRet(m, alloc, bdd)
    ELSE IF node.var = lbl
    THEN CondRet(m, alloc, neg_if(bdd, IF value THEN node.high ELSE node.low))
    ELSE IF m.scratch[bdd.node].ty # "none"
    THEN cond_cached(m, bdd, alloc, m.scratch[bdd.node])
    ELSE cond_children(m, bdd, node, lbl, value, alloc)

\* the call on bdd that returned c, entered in the record of the walk
visited(c, bdd) == [c EXCEPT !.m.visits = @ \cup {<<bdd, c.r>>}]

cond_with_alloc(m, bdd, lbl, value, alloc) ==
    IF is_const(bdd) THEN CondRet(m, alloc, bdd)
    ELSE visited(cond_node(m, bdd, m.nodes[bdd.node], lbl, value, alloc), bdd)

cond_helper(m, bdd, lbl, value) == cond_with_alloc(m, bdd, lbl, value, <<>>)

\* BottomUpBuilder::condition: the walk, then the scratch of bdd is cleared
condition(m, bdd, lbl, value) == cleared_after(cond_helper(m, bdd, lbl, value), bdd)

exists(m, bdd, lbl) ==
    Bind(condition(m, bdd, lbl, TRUE), LAMBDA v1 :
    Bind(condition(v1.m, bdd, lbl, FALSE), LAMBDA v2 :
        or(v2.m, v1.r, v2.r)))

compose(m, f, lbl, g) ==
    Bind(condition(m, f, lbl, TRUE), LAMBDA v1 :
    Bind(condition(v1.m, f, lbl, FALSE), LAMBDA v2 :
        ite(v2.m, g, v1.r, v2.r)))

\* a partial model is a sequence of <<label, polarity>> assignments
\* cond_model_h that stops after the first assignment of the model
cond_model_h_first(m, bdd, pm) ==
    IF pm = <<>> THEN Ret(m, bdd)
    ELSE condition(m, bdd, pm[1][1], pm[1][2])

RECURSIVE cond_model_h(_, _, _)
cond_model_h(m, bdd, pm) ==
    IF pm = <<>> THEN Ret(m, bdd)
    ELSE Bind(condition(m, bdd, pm[1][1], pm[1][2]), LAMBDA c :
            cond_model_h(c.m, c.r, Tail(pm)))

condition_model(m, bdd, pm) == cleared_after(cond_model_h(m, bdd, pm), bdd)

\* ---------------------------------------------------------------- smooth
RECURSIVE smooth_helper(_, _, _, _)
\* the node (v, smooth(lo), smooth(hi)) one level below current
smooth_node(m, v, lo, hi, current, total) ==
    Bind(smooth_helper(m, lo, current + 1, total), LAMBDA l :
    Bind(smooth_helper(l.m, hi, current + 1, total), LAMBDA h :
        get_or_insert(h.m, v, l.r, h.r)))

negated(res) == Ret(res.m, neg(res.r))

\* smooth_helper that leaves the constants as they are
smooth_helper_bare(m, bdd, current, total) ==
    IF current >= total THEN Ret(m, bdd)
    ELSE IF bdd.tag = "R" THEN
        smooth_node(m, m.nodes[bdd.node].var, m.nodes[bdd.node].low,
                    m.nodes[bdd.node].high, current, total)
    ELSE IF bdd.tag = "C" THEN negated(smooth_helper(m, Reg(bdd.node), current, total))
    ELSE Ret(m, bdd)

smooth_helper(m, bdd, current, total) ==
    IF current >= total THEN Ret(m, bdd)
    ELSE IF bdd.tag = "R" THEN
        smooth_node(m, m.nodes[bdd.node].var, m.nodes[bdd.node].low,
                    m.nodes[bdd.node].high, current, total)
    ELSE IF bdd.tag = "C" THEN negated(smooth_helper(m, Reg(bdd.node), current, total))
    ELSE smooth_node(m, var_at_level(order, current), bdd, bdd, current, total)

smooth(m, bdd, total) == smooth_helper(m, bdd, 0, total)

\* ---------------------------------------------------------------- sampling
RECURSIVE Pow2(_)
Pow2(n) == IF n = 0 THEN 1 ELSE 2 * Pow2(n - 1)

\* f64 numbers are kept in fixed point, as multiples of 1 / 4^num_vars: One is
\* 1.0, and the products of the weights used are exact
One == Pow2(2 * num_vars)

\* a * b
times(a, b) == (a * b) \div One

RECURSIVE Gcd(_, _)
Gcd(a, b) == IF b = 0 THEN a ELSE Gcd(b, a % b)

\* a scratch pair (value for the complement edge, value for the regular edge);
\* <<>> is None and <<x>> is Some(x)
Pair(ty, c, r) == [ty |-> ty, c |-> c, r |-> r]

\* the pair a walk of type ty reads in the scratch slot of ptr
scratch_pair(m, ptr, ty) ==
    IF m.scratch[ptr.node].ty = ty THEN m.scratch[ptr.node] ELSE Pair(ty, <<>>, <<>>)

\* cached_for that takes the value of the other parity when its own is missing
cached_any(m, ptr, ty) ==
    IF scratch_pair(m, ptr, ty).r # <<>> THEN scratch_pair(m, ptr, ty).r
    ELSE scratch_pair(m, ptr, ty).c

\* the value cached for the parity of ptr, <<>> if there is none
cached_for(m, ptr, ty) ==
    IF is_neg(ptr) THEN scratch_pair(m, ptr, ty).c ELSE scratch_pair(m, ptr, ty).r

\* the value of the other parity, kept when the pair is written back
cached_other(m, ptr, ty) ==
    IF is_neg(ptr) THEN scratch_pair(m, ptr, ty).r ELSE scratch_pair(m, ptr, ty).c

set_pair(m, ptr, ty, cached, v) ==
    IF is_neg(ptr) THEN set_scratch(m, ptr, Pair(ty, <<v>>, cached))
    ELSE set_scratch(m, ptr, Pair(ty, cached, <<v>>))

\* the children of ptr with the parity of the edge applied
low(ns, ptr) == neg_if(ptr, low_raw(ns, ptr))
high(ns, ptr) == neg_if(ptr, high_raw(ns, ptr))

\* a value v computed by a walk that left the manager m
Val(m, v) == [m |-> m, v |-> v]

\* the value of a walk at ptr, kept in the scratch pair of ptr
cache_value(m, ptr, ty, cached, v) == Val(set_pair(m, ptr, ty, cached, v), v)

RECURSIVE bottomup_pass_h(_, _, _)
\* the closure bottomup_helper of bottomup_pass_h
bottomup_helper(m, ptr, wmc, cached) ==
    Bind(bottomup_pass_h(m, low(m.nodes, ptr), wmc), LAMBDA low_v :
    Bind(bottomup_pass_h(low_v.m, high(m.nodes, ptr), wmc), LAMBDA high_v :
        cache_value(high_v.m, ptr, "sample", cached,
                    times(wmc[m.nodes[ptr.node].var][1], low_v.v)
                        + times(wmc[m.nodes[ptr.node].var][2], high_v.v))))

bottomup_pass_h(m, ptr, wmc) ==
    IF is_true(ptr) THEN Val(m, One)
    ELSE IF is_false(ptr) THEN Val(m, 0)
    ELSE IF cached_for(m, ptr, "sample") # <<>>
         THEN Val(m, cached_for(m, ptr, "sample")[1])
    ELSE bottomup_helper(m, ptr, wmc, cached_other(m, ptr, "sample"))

\* rng.gen_range(0.0..total_weight) < and_low: coin decides where both can happen
takes_low(and_low, and_high, c) ==
    IF and_high = 0 THEN TRUE ELSE IF and_low = 0 THEN FALSE ELSE c

\* a sample r with its probability, the fraction n / d in lowest terms
Sample(m, r, n, d) == [m |-> m, r |-> r, n |-> n \div Gcd(n, d), d |-> d \div Gcd(n, d)]

\* sample_node that leaves out the division by the total weight
sample_node_whole(gi, c, and_branch, total_weight) ==
    Sample(gi.m, gi.r, c.n * and_branch, c.d * One)

\* the node of the sampled path above the child sample c
sample_node(gi, c, and_branch, total_weight) ==
    Sample(gi.m, gi.r, c.n * and_branch, c.d * total_weight)

RECURSIVE sample_path(_, _, _, _)
\* sample_low that puts the low child on the high edge of the new node
sample_low_flipped(m, ptr, wmc, coin, top, and_low, total_weight) ==
    Bind(sample_path(m, low(m.nodes, ptr), wmc, coin), LAMBDA c :
        sample_node(get_or_insert(c.m, top, PtrFalse, c.r), c, and_low, total_weight))

sample_low(m, ptr, wmc, coin, top, and_low, total_weight) ==
    Bind(sample_path(m, low(m.nodes, ptr), wmc, coin), LAMBDA c :
        sample_node(get_or_insert(c.m, top, c.r, PtrFalse), c, and_low, total_weight))

sample_high(m, ptr, wmc, coin, top, and_high, total_weight) ==
    Bind(sample_path(m, high(m.nodes, ptr), wmc, coin), LAMBDA c :
        sample_node(get_or_insert(c.m, top, PtrFalse, c.r), c, and_high, total_weight))

\* the draw of sample_path at ptr
sample_branch(m, ptr, wmc, coin, top, and_low, and_high) ==
    IF and_low + and_high = 0
    THEN Sample([m EXCEPT !.panic = TRUE], ptr, 0, 1)
    ELSE IF takes_low(and_low, and_high, coin[top])
    THEN sample_low(m, ptr, wmc, coin, top, and_low, and_low + and_high)
    ELSE sample_high(m, ptr, wmc, coin, top, and_high, and_low + and_high)

sample_path(m, ptr, wmc, coin) ==
    IF is_true(ptr) THEN Sample(m, ptr, 1, 1)
    ELSE IF is_false(ptr) THEN Sample([m EXCEPT !.panic = TRUE], ptr, 0, 1)
    ELSE
        Bind(bottomup_pass_h(m, low(m.nodes, ptr), wmc), LAMBDA low_v :
        Bind(bottomup_pass_h(low_v.m, high(m.nodes, ptr), wmc), LAMBDA high_v :
            sample_branch(high_v.m, ptr, wmc, coin, m.nodes[ptr.node].var,
                          times(wmc[m.nodes[ptr.node].var][1], low_v.v),
                          times(wmc[m.nodes[ptr.node].var][2], high_v.v))))

\* the sample returned with the scratch as the walk left it
sample_uncleared(s, ptr) == s

\* the sample s of the BDD ptr, the scratch of ptr cleared unless s panicked
sample_cleared(s, ptr) ==
    IF s.m.panic THEN s ELSE Sample(clear_scratch(s.m, ptr), s.r, s.n, s.d)

weighted_sample(m, ptr, wmc, coin) == sample_cleared(sample_path(m, ptr, wmc, coin), ptr)

\* ---------------------------------------------------------------- top-k paths
Path(weight, decisions) == [weight |-> weight, decisions |-> decisions]

\* p.weight *= w; p.decisions.insert(0, (var, d))
RECURSIVE extend_paths(_, _, _, _)
extend_paths(ps, w, v, d) ==
    IF ps = <<>> THEN <<>>
    ELSE <<Path(times(ps[1].weight, w), <<<<v, d>>>> \o ps[1].decisions)>>
            \o extend_paths(Tail(ps), w, v, d)

\* insert p after every path that is at least as heavy (the sort is stable)
RECURSIVE insert_sorted(_, _)
insert_sorted(ps, p) ==
    IF ps = <<>> THEN <<p>>
    ELSE IF ps[1].weight >= p.weight THEN <<ps[1]>> \o insert_sorted(Tail(ps), p)
    ELSE <<p>> \o ps

\* true_paths.sort_by(|a, b| b.weight.cmp(&a.weight))
RECURSIVE sort_desc(_, _)
sort_desc(ps, acc) ==
    IF ps = <<>> THEN acc ELSE sort_desc(Tail(ps), insert_sorted(acc, ps[1]))

\* what is left is the k lightest paths
truncate_tail(ps, k) == IF Len(ps) <= k THEN ps ELSE SubSeq(ps, Len(ps) - k + 1, Len(ps))

truncate(ps, k) == IF Len(ps) <= k THEN ps ELSE SubSeq(ps, 1, k)

RECURSIVE bottom_up_top_k(_, _, _, _)
\* the closure bottomup_helper of bottom_up_top_k
top_k_helper(m, ptr, k, wmc, cached) ==
    Bind(bottom_up_top_k(m, low(m.nodes, ptr), k, wmc), LAMBDA low_paths :
    Bind(bottom_up_top_k(low_paths.m, high(m.nodes, ptr), k, wmc), LAMBDA high_paths :
        cache_value(high_paths.m, ptr, "topk", cached,
            truncate(sort_desc(
                extend_paths(low_paths.v, wmc[m.nodes[ptr.node].var][1],
                             m.nodes[ptr.node].var, FALSE)
                  \o extend_paths(high_paths.v, wmc[m.nodes[ptr.node].var][2],
                                  m.nodes[ptr.node].var, TRUE), <<>>), k))))

bottom_up_top_k(m, ptr, k, wmc) ==
    IF is_true(ptr) THEN Val(m, <<Path(One, <<>>)>>)
    ELSE IF is_false(ptr) THEN Val(m, <<>>)
    ELSE IF cached_for(m, ptr, "topk") # <<>>
         THEN Val(m, cached_for(m, ptr, "topk")[1])
    ELSE top_k_helper(m, ptr, k, wmc, cached_other(m, ptr, "topk"))

\* the first decision of p is next_var taken high
goes_high(p, next_var) ==
    p.decisions # <<>> /\ p.decisions[1][1] = next_var /\ p.decisions[1][2]

\* p with its decision on next_var removed
strip_decision(p, next_var) ==
    IF p.decisions # <<>> /\ p.decisions[1][1] = next_var
    THEN Path(p.weight, Tail(p.decisions)) ELSE p

\* one side of paths.iter().partition(..), the decision on next_var removed
RECURSIVE partition_paths(_, _, _, _)
partition_paths(ps, next_var, want_high, acc) ==
    IF ps = <<>> THEN acc
    ELSE partition_paths(Tail(ps), next_var, want_high,
            IF goes_high(ps[1], next_var) = want_high
            THEN Append(acc, strip_decision(ps[1], next_var)) ELSE acc)

\* the first decisions of the paths
path_heads(paths) ==
    {paths[i].decisions[1][1] : i \in {j \in 1..Len(paths) : paths[j].decisions # <<>>}}

RECURSIVE construct_top_k_bdd(_, _)
\* the node of next_var over the BDDs of the two partitions
top_k_split(m, paths, next_var) ==
    Bind(construct_top_k_bdd(m, partition_paths(paths, next_var, FALSE, <<>>)), LAMBDA lo :
    Bind(construct_top_k_bdd(lo.m, partition_paths(paths, next_var, TRUE, <<>>)), LAMBDA hi :
        IF lo.r = hi.r THEN Ret(hi.m, lo.r)
        ELSE get_or_insert(hi.m, next_var, lo.r, hi.r)))

construct_top_k_bdd(m, paths) ==
    IF paths = <<>> THEN Ret(m, PtrFalse)
    ELSE IF \A i \in 1..Len(paths) : paths[i].decisions = <<>> THEN Ret(m, PtrTrue)
    ELSE top_k_split(m, paths, first_of(order, path_heads(paths)))

\* the BDD of the paths t.v
top_k_bdd(t) == construct_top_k_bdd(t.m, t.v)

top_k_paths(m, ptr, k, wmc) ==
    cleared_after(top_k_bdd(bottom_up_top_k(m, ptr, k, wmc)), ptr)

\* ---------------------------------------------------------------- meaning
\* An assignment is a number whose bit v is the value of the label v.
Assignments == 0..Pow2(num_vars) - 1

bit(a, v) == (a \div Pow2(v)) % 2 = 1

\* the assignment a with the label v set to val
with_bit(a, v, val) ==
    IF bit(a, v) = val THEN a
    ELSE IF val THEN a + Pow2(v) ELSE a - Pow2(v)

RECURSIVE Eval(_, _, _)
Eval(ns, p, a) ==
    IF is_true(p) THEN TRUE
    ELSE IF is_false(p) THEN FALSE
    ELSE is_neg(p) #
            Eval(ns, IF bit(a, ns[p.node].var) THEN ns[p.node].high ELSE ns[p.node].low, a)

\* the Boolean function of a pointer: its satisfying assignments
Sem(ns, p) == {a \in Assignments : Eval(ns, p, a)}

IteSem(F, G, H) == (F \cap G) \cup (H \ F)

\* the function of an edge p whose node, if any, has its function in acc
EdgeSem(acc, p) ==
    IF is_true(p) THEN Assignments
    ELSE IF is_false(p) THEN {}
    ELSE IF is_neg(p) THEN Assignments \ acc[p.node]
    ELSE acc[p.node]

\* if v then H else L
NodeSem(v, L, H) == {a \in Assignments : IF bit(a, v) THEN a \in H ELSE a \in L}

\* the functions of the regular pointers of all nodes, in table order; a
\* node is stored after its children, so they are in acc already
RECURSIVE SemTable(_, _)
SemTable(ns, acc) ==
    IF Len(acc) = Len(ns) THEN acc
    ELSE SemTable(ns, Append(acc,
            NodeSem(ns[Len(acc) + 1].var, EdgeSem(acc, ns[Len(acc) + 1].low),
                    EdgeSem(acc, ns[Len(acc) + 1].high))))

\* the functions of the table t and their complements, with the constants
SemsOf(t) ==
    {{}, Assignments} \cup {t[i] : i \in 1..Len(t)}
        \cup {Assignments \ t[i] : i \in 1..Len(t)}

\* the functions of all pointers into the table
AllSems(ns) == SemsOf(SemTable(ns, <<>>))

\* every pointer into the table
AllPtrs == {PtrTrue, PtrFalse} \cup {Reg(i) : i \in 1..Len(nodes)}
                \cup {Compl(i) : i \in 1..Len(nodes)}

\* ---------------------------------------------------------------- compile_cnf
\* the clause that excludes exactly the assignment numbered a; a call that
\* panicked ends the compilation
RECURSIVE compile_clause(_, _, _)
compile_clause(m, a, v) ==
    IF v = num_vars THEN Ret(m, PtrFalse)
    ELSE Bind(var(m, v, ~bit(a, v)), LAMBDA lit :
         Bind(compile_clause(lit.m, a, v + 1), LAMBDA rest :
            IF lit.m.panic \/ rest.m.panic THEN rest ELSE or(rest.m, lit.r, rest.r)))

\* the conjunction of the clauses of the assignments in S, from a upwards
RECURSIVE compile_cnf(_, _, _)
compile_cnf(m, S, a) ==
    IF a = Pow2(num_vars) THEN Ret(m, PtrTrue)
    ELSE IF a \in S THEN
        Bind(compile_clause(m, a, 0), LAMBDA c :
        Bind(compile_cnf(c.m, S, a + 1), LAMBDA rest :
            IF c.m.panic \/ rest.m.panic THEN rest ELSE and(rest.m, c.r, rest.r)))
    ELSE compile_cnf(m, S, a + 1)

\* ---------------------------------------------------------------- public calls
Operands == handles \cup {PtrTrue, PtrFalse}

Call(op, f, g, h, lbl, val, r) ==
    [op |-> op, f |-> f, g |-> g, h |-> h, lbl |-> lbl, val |-> val, r |-> r,
     alt |-> r, calls |-> {}]

\* the record of a call that left the manager m
outcome(m, rec) ==
    IF m.panic THEN [rec EXCEPT !.op = "panic", !.calls = m.calls]
    ELSE [rec EXCEPT !.calls = m.calls]

\* the manager after a call that returned rec.r
Returns(m, rec) ==
    /\ nodes' = m.nodes
    /\ scratch' = m.scratch
    /\ apply_table' = m.apply_table
    /\ time_limit' = m.left
    /\ handles' = IF m.panic THEN handles ELSE handles \cup {rec.r}
    /\ last' = outcome(m, rec)
    /\ UNCHANGED <<order, lossy>>

\* a counted call op(f, g, h, lbl, val) that returned res
Step(res, op, f, g, h, lbl, val) ==
    /\ Returns(res.m, Call(op, f, g, h, lbl, val, res.r))
    /\ nops' = nops + 1

\* a counted call whose record keeps alt beside the result
StepAlt(res, op, f, g, h, lbl, val, alt) ==
    /\ Returns(res.m, [Call(op, f, g, h, lbl, val, res.r) EXCEPT !.alt = alt])
    /\ nops' = nops + 1

\* a walk is the last call of a run
Walk(res, op, f, lbl, alt) ==
    /\ Returns(res.m, [Call(op, f, PtrFalse, PtrFalse, lbl, FALSE, res.r) EXCEPT !.alt = alt])
    /\ nops' = MaxOps

CanCall == nops < MaxOps /\ last.op # "panic"

Fresh == nodes = <<>> /\ handles = {} /\ nops = 0

\* the manager with an empty AllIteTable
Reference == [Manager EXCEPT !.apply_table = <<>>, !.slots = 0]

Init ==
    /\ nodes = <<>>
    /\ scratch = <<>>
    /\ apply_table = <<>>
    /\ order = linear_order(NumVars)
    /\ time_limit = NoLimit
    /\ lossy = 0
    /\ handles = {}
    /\ nops = 0
    /\ last = Call("new", PtrFalse, PtrFalse, PtrFalse, 0, FALSE, PtrFalse)

Cnfs == {S \in SUBSET Assignments : Cardinality(S) <= MaxClauses}

\* compile_cnf; last.alt is the result with an AllIteTable
Compiled(res, alt) ==
    /\ Returns(res.m, [Call("compile_cnf", PtrFalse, PtrFalse, PtrFalse, 0, FALSE, res.r)
                        EXCEPT !.alt = alt])
    /\ nops' = nops

CompileCnf ==
    /\ Fresh
    /\ time_limit = NoLimit
    /\ \E S \in Cnfs :
        Compiled(compile_cnf(Manager, S, 0), compile_cnf(Reference, S, 0).r)

Var ==
    /\ CanCall
    /\ \E v \in Labels, pol \in BOOLEAN :
        Step(var(Manager, v, pol), "var", PtrFalse, PtrFalse, PtrFalse, v, pol)

Negate ==
    /\ CanCall
    /\ \E a \in handles :
        Step(Ret(Manager, negate(a)), "negate", a, PtrFalse, PtrFalse, 0, FALSE)

IteCall ==
    /\ CanCall
    /\ \E f \in handles, g \in Operands, h \in Operands :
        Step(ite(Manager, f, g, h), "ite", f, g, h, 0, FALSE)

And ==
    /\ CanCall
    /\ \E a \in handles, b \in handles :
        Step(and(Manager, a, b), "and", a, b, PtrFalse, 0, FALSE)

Or ==
    /\ CanCall
    /\ \E a \in handles, b \in handles :
        Step(or(Manager, a, b), "or", a, b, PtrFalse, 0, FALSE)

Xor ==
    /\ CanCall
    /\ \E a \in handles, b \in handles :
        Step(xor(Manager, a, b), "xor", a, b, PtrFalse, 0, FALSE)

\* or(and(a, b), and(~a, ~b)), the calls of test_ite_1
iff_by_clauses(m, a, b) ==
    Bind(and(m, a, b), LAMBDA clause1 :
    Bind(and(clause1.m, neg(a), neg(b)), LAMBDA clause2 :
        or(clause2.m, clause1.r, clause2.r)))

\* the result res of iff beside the result alt of the clauses
iff_both(res, alt) == [m |-> alt.m, r |-> res.r, alt |-> alt.r]

iff_then_clauses(res, a, b) == iff_both(res, iff_by_clauses(res.m, a, b))

IffStep(both, a, b) == StepAlt(both, "iff", a, b, PtrFalse, 0, FALSE, both.alt)

\* iff(a, b), and then the same function built as in test_ite_1
Iff ==
    /\ CanCall
    /\ \E a \in handles, b \in handles :
        IffStep(iff_then_clauses(iff(Manager, a, b), a, b), a, b)

Condition ==
    /\ CanCall
    /\ \E a \in handles, v \in Labels, val \in BOOLEAN :
        Step(condition(Manager, a, v, val), "condition", a, PtrFalse, PtrFalse, v, val)

Exists ==
    /\ CanCall
    /\ \E a \in handles, v \in Labels :
        Step(exists(Manager, a, v), "exists", a, PtrFalse, PtrFalse, v, FALSE)

Compose ==
    /\ CanCall
    /\ \E f \in handles, v \in Labels, g \in handles :
        Step(compose(Manager, f, v, g), "compose", f, g, PtrFalse, v, FALSE)

Next ==
    \/ CompileCnf
    \/ Var
    \/ Negate
    \/ IteCall
    \/ And
    \/ Or
    \/ Xor
    \/ Iff
    \/ Condition
    \/ Exists
    \/ Compose

Spec == Init /\ [][Next]_vars

\* ---------------------------------------------------------------- walks
\* the (low, high) weights a variable can have: (1.0, 2.0) and (0.0, 1.0)
WeightPairs == {<<One, 2 * One>>, <<0, One>>}

\* WmcParams: the weights of every variable
WeightMaps == [Labels -> WeightPairs]

\* the draws of the random generator: coin[v] is TRUE when the draw at a
\* node of v falls below and_low
Coins == [Labels -> BOOLEAN]

\* partial models: assignments to at most two variables, in label order
PartialModels ==
    {<<>>} \cup {<<<<v, b>>>> : v \in Labels, b \in BOOLEAN}
        \cup {<<<<v, b>>, <<w, c>>>> : v \in Labels, w \in Labels, b \in BOOLEAN, c \in BOOLEAN}

ConditionModel ==
    /\ CanCall
    /\ \E a \in handles, pm \in {q \in PartialModels : Len(q) < 2 \/ q[1][1] < q[2][1]} :
        Walk(condition_model(Manager, a, pm), "condition_model", a, 0, pm)

Smooth ==
    /\ CanCall
    /\ \E a \in handles, n \in 0..Len(order) :
        Walk(smooth(Manager, a, n), "smooth", a, n, n)

\* the sample s, its probability kept beside it
Sampled(s, a) == Walk(s, "weighted_sample", a, 0, <<s.n, s.d>>)

WeightedSample ==
    /\ CanCall
    /\ \E a \in handles, wmc \in WeightMaps, coin \in Coins :
        Sampled(weighted_sample(Manager, a, wmc, coin), a)

\* the weights (1, 1) of robdd_model_count on every variable
unweighted_params == [v \in Labels |-> <<1, 1>>]

\* unsmoothed_wmc in a finite field whose prime is above every count: the
\* fold of section 4.5 with the aggregation of DDNNFPtr::wmc
RECURSIVE unsmoothed_wmc(_, _, _)
unsmoothed_wmc(ns, ptr, params) ==
    IF is_true(ptr) THEN 1
    ELSE IF is_false(ptr) THEN 0
    ELSE params[ns[ptr.node].var][1] * unsmoothed_wmc(ns, low(ns, ptr), params)
            + params[ns[ptr.node].var][2] * unsmoothed_wmc(ns, high(ns, ptr), params)

\* robdd_model_count returned the count of the BDD smoothed; last.alt is the
\* count of a as it is
Counted(smoothed, a) ==
    Walk(smoothed, "robdd_model_count", a,
         unsmoothed_wmc(smoothed.m.nodes, smoothed.r, unweighted_params),
         unsmoothed_wmc(nodes, a, unweighted_params))

ModelCount ==
    /\ CanCall
    /\ \E a \in handles : Counted(smooth(Manager, a, num_vars), a)

TopKPaths ==
    /\ CanCall
    /\ \E a \in handles, k \in 0..MaxK, wmc \in WeightMaps :
        Walk(top_k_paths(Manager, a, k, wmc), "top_k_paths", a, k, wmc)

NextAll ==
    \/ CompileCnf
    \/ Var
    \/ Negate
    \/ And
    \/ Condition
    \/ ConditionModel
    \/ Smooth
    \/ WeightedSample
    \/ TopKPaths
    \/ ModelCount

SpecAll == Init /\ [][NextAll]_vars

\* ---------------------------------------------------------------- time limit
\* start_time_limit: the limit expires after k more checks
StartTimeLimit ==
    /\ ~Fresh
    /\ CanCall
    /\ time_limit = NoLimit
    /\ \E k \in 0..MaxTicks : time_limit' = k
    /\ UNCHANGED <<nodes, scratch, apply_table, order, lossy, handles, nops, last>>

StopTimeLimit ==
    /\ time_limit # NoLimit
    /\ time_limit' = NoLimit
    /\ UNCHANGED <<nodes, scratch, apply_table, order, lossy, handles, nops, last>>

NextTime ==
    \/ CompileCnf
    \/ Var
    \/ And
    \/ StartTimeLimit
    \/ StopTimeLimit

SpecTime == Init /\ [][NextTime]_vars

\* ---------------------------------------------------------------- lossy cache
\* a manager whose apply cache has any number of slots up to ApplySlots
InitCache ==
    /\ nodes = <<>>
    /\ scratch = <<>>
    /\ apply_table = <<>>
    /\ order = linear_order(NumVars)
    /\ time_limit = NoLimit
    /\ lossy \in 0..ApplySlots
    /\ handles = {}
    /\ nops = 0
    /\ last = Call("new", PtrFalse, PtrFalse, PtrFalse, 0, FALSE, PtrFalse)

\* the manager whose apply cache is emptied at its d-th insert
Evicting(d) == [Manager EXCEPT !.evict = d]

\* an ite call res beside the same call ref made with an empty AllIteTable
CachedStep(res, ref, f, g, h) ==
    /\ Returns(res.m, [Call("ite", f, g, h, 0, res.m.nodes = ref.m.nodes, res.r)
                        EXCEPT !.alt = ref.r])
    /\ nops' = nops + 1

IteCached ==
    /\ CanCall
    /\ \E f \in handles, g \in handles, h \in handles, d \in 0..MaxEvict :
        CachedStep(ite(Evicting(d), f, g, h), ite(Reference, f, g, h), f, g, h)

NextCache ==
    \/ CompileCnf
    \/ Var
    \/ Negate
    \/ IteCached

SpecCache == InitCache /\ [][NextCache]_vars

\* ---------------------------------------------------------------- wider order
\* a manager with one variable more
InitWide ==
    /\ nodes = <<>>
    /\ scratch = <<>>
    /\ apply_table = <<>>
    /\ order = linear_order(NumVars + 1)
    /\ time_limit = NoLimit
    /\ lossy = 0
    /\ handles = {}
    /\ nops = 0
    /\ last = Call("new", PtrFalse, PtrFalse, PtrFalse, 0, FALSE, PtrFalse)

\* a call op(f, lbl, val) that returned res and is the last of the run
Last(res, op, f, lbl, val) ==
    /\ Returns(res.m, Call(op, f, PtrFalse, PtrFalse, lbl, val, res.r))
    /\ nops' = MaxOps

ConditionOnce ==
    /\ CanCall
    /\ \E a \in handles, v \in Labels, val \in BOOLEAN :
        Last(condition(Manager, a, v, val), "condition", a, v, val)

NextCond ==
    \/ CompileCnf
    \/ Negate
    \/ ConditionOnce

SpecCond == InitWide /\ [][NextCond]_vars

\* ---------------------------------------------------------------- properties
Cofactor(F, v, val) == {a \in Assignments : with_bit(a, v, val) \in F}

VarsOf(ns, p) == {ns[i].var : i \in reachable(ns, p)}

\* F is the function of exactly one pointer of the table
OnlyOnce(F) == Cardinality({q \in AllPtrs : Sem(nodes, q) = F}) = 1

\* p is the only pointer of the table with its function
Canonical(p) == OnlyOnce(Sem(nodes, p))

\* C1: two pointers obtained from var, the constants, negate, ite, and, or,
\* xor, iff, condition, exists and compose denote the same Boolean function
\* if and only if they are equal as tagged pointers: no two pointers into
\* the table have the same function.
C1_Canonicity ==
    Cardinality(AllSems(nodes)) = Cardinality(AllPtrs)

\* and(f, g) of two different handles returned the pointer f itself
C1_Witness ==
    /\ last.op = "and"
    /\ last.f # last.g
    /\ ~is_const(last.g)
    /\ ~is_const(last.r)
    /\ last.r = last.f

\* C2: with no time limit, ite(f, g, h) denotes (f AND g) OR (NOT f AND h),
\* and iff(a, b) is the pointer of or(and(a, b), and(~a, ~b)).
C2_IteFunction ==
    /\ last.op = "ite" =>
        Sem(nodes, last.r) =
            IteSem(Sem(nodes, last.f), Sem(nodes, last.g), Sem(nodes, last.h))
    /\ last.op = "iff" =>
        /\ Sem(nodes, last.r) =
            IteSem(Sem(nodes, last.f), Sem(nodes, last.g), Sem(nodes, neg(last.g)))
        /\ last.r = last.alt

\* an ite of three non-constant operands, the first complemented, whose top
\* variables differ
C2_Witness ==
    /\ last.op = "ite"
    /\ is_neg(last.f)
    /\ ~is_const(last.g) /\ ~is_const(last.h)
    /\ nodes[last.f.node].var # nodes[last.g.node].var
    /\ ~is_const(last.r)

\* ---------------------------------------------------------------- time limit
\* the apply-cache entry of the triple k is the BDD of the ite of k
SoundEntry(k) ==
    Sem(nodes, apply_table[k]) =
        IteSem(Sem(nodes, k[1]), Sem(nodes, k[2]), Sem(nodes, k[3]))

\* C3: when the time budget runs out inside an ite, nothing derived from a
\* sentinel return is inserted into the apply cache: in every reachable
\* state every apply-cache entry maps its triple to the BDD of the true ite
\* of that triple.
C3_CacheSound == \A k \in DOMAIN apply_table : SoundEntry(k)

Ordered(i) ==
    \A c \in {nodes[i].low, nodes[i].high} :
        ~is_const(c) => lt(order, nodes[i].var, nodes[c.node].var)

\* C5: after any sequence of public operations (ite and the connectives,
\* condition, smooth, weighted_sample, top_k_paths) every node in the unique
\* table satisfies order.lt(node.var, child.var) for each non-terminal child.
C5_Ordering == \A i \in 1..Len(nodes) : Ordered(i)

\* every path of p mentions the variables of the levels lvl .. n - 1, each
\* once and in order
RECURSIVE Smoothed(_, _, _)
Smoothed(p, lvl, n) ==
    IF lvl >= n THEN is_const(p)
    ELSE /\ ~is_const(p)
         /\ nodes[p.node].var = var_at_level(order, lvl)
         /\ Smoothed(nodes[p.node].low, lvl + 1, n)
         /\ Smoothed(nodes[p.node].high, lvl + 1, n)

\* the first n variables of the order
FirstVars(n) == {order[i] : i \in 1..n}

\* C6: smooth(bdd, N) returns a BDD of the same function as bdd in which
\* every root-to-leaf path mentions all N variables of the order, each
\* exactly once and in order, for every bdd over those N variables.
C6_Smooth ==
    (last.op = "smooth" /\ VarsOf(nodes, last.f) \subseteq FirstVars(last.lbl)) =>
        /\ Sem(nodes, last.r) = Sem(nodes, last.f)
        /\ Smoothed(last.r, 0, last.lbl)

\* ---------------------------------------------------------------- unique table
\* the node a get_or_insert call c has to store, and the edge it has to return
Normalized(c) ==
    IF is_neg(c.high) \/ is_false(c.high)
    THEN /\ is_neg(c.r)
         /\ nodes[c.r.node] = BddNode(c.var, neg(c.low), neg(c.high))
    ELSE /\ c.r.tag = "R"
         /\ nodes[c.r.node] = BddNode(c.var, c.low, c.high)

\* the pointer returned by the call c denotes 'if var then high else low'
Denotes(c) ==
    Sem(nodes, c.r) = NodeSem(c.var, Sem(nodes, c.low), Sem(nodes, c.high))

\* C7: no stored node has a high edge that is a complement edge or False;
\* get_or_insert on a node whose high edge is Compl or False stores
\* (var, NOT low, NOT high) and returns a complement edge to it, otherwise
\* stores (var, low, high) and returns a regular edge, and the returned
\* pointer denotes 'if var then high else low'.
C7_ComplementEdges ==
    /\ \A i \in 1..Len(nodes) : ~is_neg(nodes[i].high) /\ ~is_false(nodes[i].high)
    /\ \A c \in last.calls : Normalized(c) /\ Denotes(c)

\* the last operation made a get_or_insert call of each kind
C7_Witness ==
    /\ \E c \in last.calls : is_neg(c.high) /\ ~is_const(c.low)
    /\ \E c \in last.calls : is_false(c.high)
    /\ \E c \in last.calls : c.high.tag = "R" /\ is_neg(c.low)

\* no two addresses of the table hold the same node
NoDuplicates == \A i, j \in 1..Len(nodes) : nodes[i] = nodes[j] => i = j

\* get_or_insert calls with equal triples returned the same pointer
SameNode == \A c, d \in last.calls :
    (c.var = d.var /\ c.low = d.low /\ c.high = d.high) => c.r = d.r

\* the table after a step keeps every node of the table before it
Grows == Len(nodes') >= Len(nodes) /\ SubSeq(nodes', 1, Len(nodes)) = nodes

\* C8: two get_or_insert calls with equal (var, low, high) return the same
\* node, the table never contains two nodes with equal triples, and an
\* insertion never removes or changes a previously interned node.
C8_UniqueTable == [](NoDuplicates /\ SameNode) /\ [][Grows]_vars

\* var found the node of its variable in the table, below later nodes
C8_Witness ==
    /\ last.op = "var"
    /\ last.calls # {}
    /\ last.r.node < Len(nodes)

\* ---------------------------------------------------------------- apply cache
\* C9: with no time limit, the pointer every ite call returns is the same
\* whether the apply cache keeps all entries, loses entries by overwrite, or
\* is emptied between two recursive steps; the nodes interned are the same.
C9_CacheTransparent ==
    /\ last.op = "ite" => last.r = last.alt /\ last.val
    /\ last.op = "compile_cnf" => last.r = last.alt

\* an ite on a lossy cache that interned two nodes and left the cache empty
C9_Witness ==
    /\ last.op = "ite"
    /\ lossy > 0
    /\ ~is_const(last.r)
    /\ Cardinality(last.calls) >= 2
    /\ apply_table = <<>>

\* C10: condition(bdd, v, val) returns the canonical BDD of the cofactor
\* bdd|v=val, and bdd itself when v does not occur in bdd.
C10_Condition ==
    last.op = "condition" =>
        /\ Sem(nodes, last.r) = Cofactor(Sem(nodes, last.f), last.lbl, last.val)
        /\ Canonical(last.r)
        /\ last.lbl \notin VarsOf(nodes, last.f) => last.r = last.f

\* the node g with its variable above lbl is the high child of a and the
\* complemented low child of b
Shared(g, a, b, lbl) ==
    /\ lt(order, nodes[g].var, lbl)
    /\ lbl \in VarsOf(nodes, Reg(g))
    /\ nodes[a].high = Reg(g)
    /\ nodes[b].low = Compl(g)

\* a complemented root conditioned on a variable below a node that the walk
\* reaches through both parities
C10_Witness ==
    /\ last.op = "condition"
    /\ is_neg(last.f)
    /\ ~is_const(last.r)
    /\ last.r.node # last.f.node
    /\ \E g, a, b \in reachable(nodes, last.f) : Shared(g, a, b, last.lbl)

\* ---------------------------------------------------------------- exhausted budget
\* an ite call made with left checks of budget; val: the tables are as before
Limited(res, f, g, h, left) ==
    Step(res, "ite", f, g, h, left,
         res.m.nodes = nodes /\ res.m.apply_table = apply_table)

IteLimited ==
    /\ CanCall
    /\ time_limit # NoLimit
    /\ \E f \in Operands, g \in Operands, h \in Operands :
        Limited(ite(Manager, f, g, h), f, g, h, time_limit)

NextLimit ==
    \/ CompileCnf
    \/ Var
    \/ StartTimeLimit
    \/ StopTimeLimit
    \/ IteLimited

SpecLimit == Init /\ [][NextLimit]_vars

\* the last call was an ite call that Ite::new resolves by a terminal shortcut
Shortcut == last.op = "ite" /\ ite_terminal(last.f, last.g, last.h) # <<>>

\* C11 as stated: an ite call that a terminal shortcut resolves returns the
\* result of the shortcut even when the budget is exhausted at the call
C11_CheckAfterNormalization ==
    Shortcut => last.r = ite_terminal(last.f, last.g, last.h)[1]

\* C11: the time check is the first step of ite_helper: a call made with the
\* budget exhausted returns the sentinel False and leaves the tables alone,
\* shortcut or not; a call made within the budget that a terminal shortcut
\* resolves returns the result of the shortcut and leaves the tables alone
C11_CheckAtEntry ==
    last.op = "ite" =>
        /\ last.lbl = 0 => last.r = PtrFalse /\ last.val
        /\ last.lbl # 0 /\ Shortcut =>
            last.r = ite_terminal(last.f, last.g, last.h)[1] /\ last.val

\* a shortcut call made with the budget exhausted whose shortcut is not False
C11_Witness ==
    /\ Shortcut
    /\ last.lbl = 0
    /\ ite_terminal(last.f, last.g, last.h)[1] # PtrFalse
    /\ last.r = PtrFalse

\* ---------------------------------------------------------------- top-k paths
\* the weight of the total assignment a: the product of its literals' weights
RECURSIVE WeightOf(_, _, _)
WeightOf(a, wmc, v) ==
    IF v = num_vars THEN One
    ELSE times(wmc[v][IF bit(a, v) THEN 2 ELSE 1], WeightOf(a, wmc, v + 1))

\* the paths q, each with one more decision: the label v takes the value d
Decided(Q, wmc, v, d) ==
    {[weight |-> times(q.weight, wmc[v][IF d THEN 2 ELSE 1]),
      cover |-> {a \in q.cover : bit(a, v) = d}] : q \in Q}

\* the root-to-True paths of p: the product of the weights of the decisions
\* of each, and the assignments it stands for
RECURSIVE PathsOf(_, _, _)
PathsOf(ns, p, wmc) ==
    IF is_true(p) THEN {[weight |-> One, cover |-> Assignments]}
    ELSE IF is_false(p) THEN {}
    ELSE Decided(PathsOf(ns, low(ns, p), wmc), wmc, ns[p.node].var, FALSE)
            \cup Decided(PathsOf(ns, high(ns, p), wmc), wmc, ns[p.node].var, TRUE)

Least(k, n) == IF k < n THEN k ELSE n

\* T is a choice of the k heaviest elements of U (all of U if it has fewer)
Heaviest(T, U, k, W(_)) ==
    /\ Cardinality(T) = Least(k, Cardinality(U))
    /\ \A x \in T, y \in U \ T : W(x) >= W(y)

C14_Exists ==
    last.op = "exists" =>
        /\ Sem(nodes, last.r) = Cofactor(Sem(nodes, last.f), last.lbl, TRUE)
                                    \cup Cofactor(Sem(nodes, last.f), last.lbl, FALSE)
        /\ Canonical(last.r)
        /\ last.lbl \notin VarsOf(nodes, last.r)

\* exists on the middle variable of a conjunction of three literals, whose
\* root is a complemented edge: what is left is the conjunction of the others
C14_Witness ==
    /\ last.op = "exists"
    /\ is_neg(last.f)
    /\ Cardinality(Sem(nodes, last.f)) = 1
    /\ last.lbl = var_at_level(order, 1)
    /\ VarsOf(nodes, last.r) = Labels \ {last.lbl}
    /\ Cardinality(Sem(nodes, last.r)) = 2

\* the function of f with g put in the place of v
Substituted(F, v, G) == {a \in Assignments : with_bit(a, v, a \in G) \in F}

\* C15: compose(f, v, g) denotes f with every occurrence of v replaced by g,
\* that is if g then f|v=T else f|v=F, and is the only pointer of the table
\* that does, wherever the variables of g are in the order.
C15_Compose ==
    last.op = "compose" =>
        /\ Sem(nodes, last.r) = Substituted(Sem(nodes, last.f), last.lbl, Sem(nodes, last.g))
        /\ Sem(nodes, last.r) =
                IteSem(Sem(nodes, last.g), Cofactor(Sem(nodes, last.f), last.lbl, TRUE),
                       Cofactor(Sem(nodes, last.f), last.lbl, FALSE))
        /\ Canonical(last.r)

\* v occurs in f, and g has a variable before v and one after v in the order
C15_Witness ==
    /\ last.op = "compose"
    /\ last.lbl \in VarsOf(nodes, last.f)
    /\ \E w \in VarsOf(nodes, last.g) : lt(order, w, last.lbl)
    /\ \E w \in VarsOf(nodes, last.g) : lt(order, last.lbl, w)
    /\ last.g # last.f
    /\ ~is_const(last.r)
    /\ last.r # last.f

\* ---------------------------------------------------------------- laws
\* a call that is made after the calls counted by nops and ends the run
Closing(res, op, f, g, h, lbl, alt) ==
    /\ Returns(res.m, [Call(op, f, g, h, lbl, FALSE, res.r) EXCEPT !.alt = alt])
    /\ nops' = MaxOps + 1

CanClose == nops <= MaxOps /\ last.op # "panic"

\* ite(var(v, true), condition(a, v, true), condition(a, v, false))
shannon(m, a, v) ==
    Bind(var(m, v, TRUE), LAMBDA x :
    Bind(condition(x.m, a, v, TRUE), LAMBDA t :
    Bind(condition(t.m, a, v, FALSE), LAMBDA e :
        ite(e.m, x.r, t.r, e.r))))

Shannon ==
    /\ CanClose
    /\ \E a \in Operands, v \in Labels :
        Closing(shannon(Manager, a, v), "shannon", a, PtrFalse, PtrFalse, v, PtrFalse)

\* the manager that keeps its apply cache, or has lost every entry of it
forgetting(m, keep) == IF keep THEN m ELSE [m EXCEPT !.apply_table = <<>>]

\* the first call res, and then the second call made by again(m)
and_then(res, keep, again(_)) == iff_both(res, again(forgetting(res.m, keep)))

\* last.lbl is 1 when the second call found the cache as the first left it
Both(both, op, a, b, c, keep) ==
    Closing(both, op, a, b, c, IF keep THEN 1 ELSE 0, both.alt)

\* ite(a, b, c), and then ite(negate(a), c, b)
IteFlip ==
    /\ CanClose
    /\ \E a \in handles, b \in Operands, c \in Operands, keep \in BOOLEAN :
        Both(and_then(ite(Manager, a, b, c), keep, LAMBDA m : ite(m, negate(a), c, b)),
             "ite", a, b, c, keep)

\* and(a, b), and then and(b, a)
AndSwap ==
    /\ CanClose
    /\ \E a \in handles, b \in handles, keep \in BOOLEAN :
        Both(and_then(and(Manager, a, b), keep, LAMBDA m : and(m, b, a)),
             "and", a, b, PtrFalse, keep)

\* or(a, b), and then or(b, a)
OrSwap ==
    /\ CanClose
    /\ \E a \in handles, b \in handles, keep \in BOOLEAN :
        Both(and_then(or(Manager, a, b), keep, LAMBDA m : or(m, b, a)),
             "or", a, b, PtrFalse, keep)

NextLaws ==
    \/ CompileCnf
    \/ Var
    \/ Negate
    \/ Shannon
    \/ AndSwap
    \/ OrSwap

SpecLaws == Init /\ [][NextLaws]_vars

NextIte ==
    \/ CompileCnf
    \/ Var
    \/ IteFlip

SpecIte == Init /\ [][NextIte]_vars

\* C13: Shannon law: a is the pointer of
\* ite(var(v, true), condition(a, v, true), condition(a, v, false)) for every
\* BDD a and every variable v of the order.
C13_Shannon == last.op = "shannon" => last.r = last.f

\* the expansion of a BDD on a variable of its that is not the one of its root
C13_Witness ==
    /\ last.op = "shannon"
    /\ ~is_const(last.f)
    /\ last.lbl \in VarsOf(nodes, last.f)
    /\ nodes[last.f.node].var # last.lbl

\* C20: ite(a, True, False) is a, ite(a, b, b) is b, and ite(a, b, c) is
\* ite(negate(a), c, b), as pointers.
C20_IteIdentities ==
    last.op = "ite" =>
        /\ is_true(last.g) /\ is_false(last.h) => last.r = last.f
        /\ last.g = last.h => last.r = last.g
        /\ last.r = last.alt

\* the two ite calls on three distinct nodes that are no constants, the
\* second one made on an empty cache
C20_Witness ==
    /\ last.op = "ite"
    /\ last.lbl = 0
    /\ ~is_const(last.g) /\ ~is_const(last.h) /\ ~is_const(last.r)
    /\ Cardinality({last.f.node, last.g.node, last.h.node}) = 3
    /\ last.r \notin {last.f, last.g, last.h}

\* C19: and(a, b) is the pointer of and(b, a), and or(a, b) the pointer of
\* or(b, a), whichever call is made first and whether the second call finds
\* the entries of the first in the apply cache or not.
C19_Commutative == last.op \in {"and", "or"} => last.r = last.alt

\* two distinct operands that are no constants, the second call made on an
\* empty cache, and the result is a node that is neither of them
C19_Witness ==
    /\ last.op \in {"and", "or"}
    /\ last.lbl = 0
    /\ last.f.node # last.g.node
    /\ ~is_const(last.r)
    /\ last.r \notin {last.f, last.g}
    /\ Cardinality(last.calls) >= 2

\* ---------------------------------------------------------------- counting
\* the number of assignments to the variables V that some assignment of F extends
OverSupport(F, V) == Cardinality({{v \in V : bit(a, v)} : a \in F})

\* C16: robdd_model_count, the weighted model count with weights (1, 1) of
\* smooth(a, n) over a manager with n variables, is the number of satisfying
\* assignments of a over all n variables: the number of satisfying
\* assignments to the variables of a, times 2 for every other variable.
C16_ModelCount ==
    last.op = "robdd_model_count" =>
        /\ last.lbl = Cardinality(Sem(nodes, last.f))
        /\ last.lbl = OverSupport(Sem(nodes, last.f), VarsOf(nodes, last.f))
                        * Pow2(num_vars - Cardinality(VarsOf(nodes, last.f)))

\* the count of a BDD with three paths and seven satisfying assignments
C16_Witness ==
    /\ last.op = "robdd_model_count"
    /\ last.alt = 3
    /\ last.lbl = 7
    /\ Cardinality(VarsOf(nodes, last.f)) = num_vars

\* ---------------------------------------------------------------- weights
\* the fold of weighted_sample made on a itself, the scratch cleared after it;
\* last.lbl is its value
Folded(val, a, wmc) == Walk(Ret(clear_scratch(val.m, a), a), "wmc", a, val.v, wmc)

\* weights (0.25, 0.75), (0.5, 0.5) or (0.0, 1.0) on every variable
Wmc ==
    /\ CanCall
    /\ \E a \in handles,
          wmc \in [Labels -> {<<One \div 4, 3 * (One \div 4)>>, <<One \div 2, One \div 2>>,
                              <<0, One>>}] :
        Folded(bottomup_pass_h(Manager, a, wmc), a, wmc)

\* a sample: the assignments of its path and its probability
Outcome(s) == <<Sem(s.m.nodes, s.r), s.n, s.d>>

\* the sample s of a; last.alt.all are the samples of all draws
Drawn(s, a, wmc, all) ==
    Walk(s, "weighted_sample", a, 0, [wmc |-> wmc, p |-> <<s.n, s.d>>, all |-> all])

\* weights (1.0, 2.0) or (0.25, 0.75) on every variable; the draws of the
\* sample returned fall all on the same side
SampleAll ==
    /\ CanCall
    /\ \E a \in handles \ {PtrFalse}, coin \in {[v \in Labels |-> b] : b \in BOOLEAN},
          wmc \in [Labels -> {<<One, 2 * One>>, <<One \div 4, 3 * (One \div 4)>>}] :
        Drawn(weighted_sample(Manager, a, wmc, coin), a, wmc,
              {Outcome(weighted_sample(Manager, a, wmc, c)) : c \in Coins})

NextWmc ==
    \/ CompileCnf
    \/ Var
    \/ Negate
    \/ Wmc
    \/ SampleAll

SpecWmc == Init /\ [][NextWmc]_vars

\* the sum of the weights of the assignments in S
RECURSIVE SumWeights(_, _)
SumWeights(S, wmc) ==
    IF S = {} THEN 0
    ELSE WeightOf(CHOOSE a \in S : TRUE, wmc, 0)
            + SumWeights(S \ {CHOOSE a \in S : TRUE}, wmc)

\* C17: with low weight + high weight = one on every variable, the fold of a
\* BDD pointer, cached per parity of the edge, is the sum over the satisfying
\* total assignments of the product of the weights of their literals.
C17_Wmc ==
    last.op = "wmc" =>
        last.lbl = SumWeights(Sem(nodes, last.f), last.alt)

\* the fold of a BDD that has a node reached through edges of both parities,
\* with a value that is neither zero nor one
C17_Witness ==
    /\ last.op = "wmc"
    /\ 0 < last.lbl /\ last.lbl < One
    /\ \E i \in reachable(nodes, last.f) :
        /\ \E p \in {last.f} \cup {Reg(j) : j \in reachable(nodes, last.f)} :
                Reg(i) \in {low(nodes, p), high(nodes, p)}
        /\ \E p \in {last.f} \cup {Reg(j) : j \in reachable(nodes, last.f)} :
                Compl(i) \in {low(nodes, p), high(nodes, p)}

\* the sum of the fractions <<n, d>> that are the probabilities of the outcomes
RECURSIVE SumFractions(_)
AddFraction(out, sum) == <<out[2] * sum[2] + sum[1] * out[3], out[3] * sum[2]>>
SumFractions(S) ==
    IF S = {} THEN <<0, 1>>
    ELSE AddFraction(CHOOSE out \in S : TRUE, SumFractions(S \ {CHOOSE out \in S : TRUE}))

\* the weight of bdd: the sum of the weights of its paths
RECURSIVE SumPaths(_)
SumPaths(Q) ==
    IF Q = {} THEN 0
    ELSE (CHOOSE q \in Q : TRUE).weight + SumPaths(Q \ {CHOOSE q \in Q : TRUE})

\* the outcome out is the path q of Q, with probability weight of q / weight of Q
PathOutcome(out, Q) ==
    \E q \in Q : q.cover = out[1] /\ out[2] * SumPaths(Q) = out[3] * q.weight

\* C18: on a satisfiable bdd with positive weights weighted_sample returns a
\* path of bdd with a probability p that is the product of the weights chosen
\* along the path divided by the weight of bdd; every path of bdd is returned
\* by some draw, and the probabilities of the paths sum to 1.
C18_Sample ==
    last.op = "weighted_sample" =>
        /\ PathOutcome(<<Sem(nodes, last.r), last.alt.p[1], last.alt.p[2]>>,
                       PathsOf(nodes, last.f, last.alt.wmc))
        /\ \A out \in last.alt.all : PathOutcome(out, PathsOf(nodes, last.f, last.alt.wmc))
        /\ {out[1] : out \in last.alt.all}
                = {q.cover : q \in PathsOf(nodes, last.f, last.alt.wmc)}
        /\ SumFractions(last.alt.all)[1] = SumFractions(last.alt.all)[2]

\* a sample of a BDD with three paths or more, a complemented root and weights
\* that are not the same on all variables, returned with a probability below 1
C18_Witness ==
    /\ last.op = "weighted_sample"
    /\ is_neg(last.f)
    /\ Cardinality(PathsOf(nodes, last.f, last.alt.wmc)) >= 3
    /\ Cardinality({last.alt.wmc[v] : v \in Labels}) > 1
    /\ last.alt.p[1] < last.alt.p[2]

\* ---------------------------------------------------------------- new variables
\* VarOrder::new_last: the next dense label, placed after every level
new_last(ord) == Append(ord, Len(ord))

\* VarOrder::insert_var_at_position: the next dense label, placed at the
\* level position; the levels from position on move down by one
insert_var_at_position(ord, position) ==
    SubSeq(ord, 1, position) \o <<Len(ord)>> \o SubSeq(ord, position + 1, Len(ord))

\* the label the order ord was extended with
new_label(ord) == ord[CHOOSE i \in 1..Len(ord) : ord[i] = Len(ord) - 1]

\* new_var with the literal taken of the level instead of the label
new_var_of_level(m, ord, polarity) == var(m, level(ord, new_label(ord)) - 1, polarity)

\* new_var, new_var_at_position: the literal of the label ord was extended with
new_var(m, ord, polarity) == var(m, new_label(ord), polarity)

\* the manager after its order became ord and the call returned the pointers got
Grown(res, ord, op, pol, got) ==
    /\ nodes' = res.m.nodes
    /\ scratch' = res.m.scratch
    /\ apply_table' = res.m.apply_table
    /\ order' = ord
    /\ handles' = handles \cup got
    /\ last' = outcome(res.m, Call(op, PtrFalse, PtrFalse, PtrFalse, new_label(ord), pol, res.r))
    /\ UNCHANGED <<time_limit, lossy, nops>>

CanGrow == num_vars < NumVars /\ nops <= MaxOps /\ last.op # "panic"

NewLabel ==
    /\ CanGrow
    /\ Grown(Ret(Manager, PtrFalse), new_last(order), "new_label", FALSE, {})

NewLabelAtPosition ==
    /\ CanGrow
    /\ \E position \in 0..num_vars :
        Grown(Ret(Manager, PtrFalse), insert_var_at_position(order, position),
              "new_label_at_position", FALSE, {})

NewVarGrown(res, ord, op, pol) == Grown(res, ord, op, pol, {res.r})

NewVar ==
    /\ CanGrow
    /\ \E pol \in BOOLEAN :
        NewVarGrown(new_var(Manager, new_last(order), pol), new_last(order), "new_var", pol)

NewVarAtPosition ==
    /\ CanGrow
    /\ \E position \in 0..num_vars, pol \in BOOLEAN :
        NewVarGrown(new_var(Manager, insert_var_at_position(order, position), pol),
                    insert_var_at_position(order, position), "new_var_at_position", pol)

\* and(or(a, b), a) beside ite(or(a, b), a, False), as simple_equality,
\* simple_ite1 and test_newvar compute them
absorbed(r1, a) == iff_both(and(r1.m, r1.r, a), ite(r1.m, r1.r, a, PtrFalse))

absorb(m, a, b) == absorbed(or(m, a, b), a)

Absorbing(both, a, b) == Closing(both, "absorb", a, b, PtrFalse, 0, both.alt)

Absorb ==
    /\ CanClose
    /\ \E a \in handles, b \in handles : Absorbing(absorb(Manager, a, b), a, b)

\* new_with_linear_order(n)
InitGrow ==
    /\ nodes = <<>>
    /\ scratch = <<>>
    /\ apply_table = <<>>
    /\ order \in {linear_order(n) : n \in {0, NumVars - 1}}
    /\ time_limit = NoLimit
    /\ lossy = 0
    /\ handles = {}
    /\ nops = 0
    /\ last = Call("new", PtrFalse, PtrFalse, PtrFalse, 0, FALSE, PtrFalse)

NextGrow ==
    \/ NewLabel
    \/ NewLabelAtPosition
    \/ NewVar
    \/ NewVarAtPosition
    \/ CompileCnf
    \/ Absorb

SpecGrow == InitGrow /\ [][NextGrow]_vars

\* the variables of the nodes below p
RECURSIVE Support(_, _)
Support(ns, p) ==
    IF is_const(p) THEN {}
    ELSE {ns[p.node].var} \cup Support(ns, ns[p.node].low) \cup Support(ns, ns[p.node].high)

\* C21: absorption: and(or(a, b), a) and ite(or(a, b), a, False) are the
\* pointer a, for all BDDs a and b, whether their variables were in the
\* initial linear order or were added later.
C21_Absorption == last.op = "absorb" => last.r = last.f /\ last.alt = last.f

\* a is a BDD of two variables or more, the first of them added in front of
\* the initial order, and b is another BDD
C21_Witness ==
    /\ last.op = "absorb"
    /\ order # linear_order(num_vars)
    /\ Cardinality(Support(nodes, last.f)) >= 2
    /\ var_at_level(order, 0) \in Support(nodes, last.f)
    /\ ~is_const(last.g)
    /\ last.g \notin {last.f, neg(last.f)}

\* the function F of the old variables, as a function of the variables after
\* one more was added
Lifted(F, n) == {a \in 0..Pow2(n + 1) - 1 : a % Pow2(n) \in F}

\* the function of the literal of the label v
Literal(v, polarity) == {a \in Assignments : bit(a, v) = polarity}

\* a step that changes the order
Appends ==
    /\ num_vars' = num_vars + 1
    /\ last'.lbl = num_vars
    /\ last'.lbl \notin Labels
    /\ last'.lbl \in Labels'
    /\ last'.op \in {"new_label", "new_var"} => var_at_level(order', num_vars) = last'.lbl
    /\ \A u \in Labels, v \in Labels : lt(order', u, v) <=> lt(order, u, v)
    /\ Grows
    /\ handles \subseteq handles'
    /\ \A p \in handles : Sem(nodes, p)' = Lifted(Sem(nodes, p), num_vars)
    /\ (\A i \in 1..Len(nodes) : Ordered(i))'
    /\ last'.op \in {"new_var", "new_var_at_position"} =>
        Sem(nodes, last.r)' = Literal(last.lbl, last.val)'

\* C23: new_label and new_var return the next dense label, which was not in
\* the order, place it last and increase num_vars by one; new_var_at_position
\* places it at a level of the caller's choice; none of them changes the
\* relative order of the existing variables, the stored nodes or the function
\* of a BDD the client holds, and the pointer returned with the label is the
\* literal of that label.
C23_Append == [][order' # order => Appends]_vars

\* a variable was inserted between the levels of the variables of a BDD that
\* the client holds
C23_Witness ==
    /\ last.op = "new_var_at_position"
    /\ level(order, last.lbl) > 1
    /\ level(order, last.lbl) < num_vars
    /\ \E p \in handles :
        /\ var_at_level(order, 0) \in Support(nodes, p)
        /\ var_at_level(order, num_vars - 1) \in Support(nodes, p)

\* ---------------------------------------------------------------- WmcParams
\* Option<(T, T)>: None, Some((low, high))
NoWeight == <<>>
SomeWeight(w) == <<w>>

WmcParams(zero, one, var_to_val) == [zero |-> zero, one |-> one, var_to_val |-> var_to_val]

\* a call that panicked, a call that returned v
Aborted == [panic |-> TRUE]
Got(v) == [panic |-> FALSE, v |-> v]

\* WmcParams::new
new_params(zero, one) == WmcParams(zero, one, <<>>)

\* vec![None; var_to_val.len()], then var_to_val_vec[key] = Some(value) for
\* every entry: a key that is not below the number of entries is out of bounds
new_with_default(zero, one, var_to_val) ==
    IF \E key \in DOMAIN var_to_val : key >= Cardinality(DOMAIN var_to_val)
    THEN Aborted
    ELSE Got(WmcParams(zero, one,
                [i \in 1..Cardinality(DOMAIN var_to_val) |->
                    IF i - 1 \in DOMAIN var_to_val THEN SomeWeight(var_to_val[i - 1])
                    ELSE NoWeight]))

\* while n >= self.var_to_val.len() { self.var_to_val.push(None) }
pushed(var_to_val, n) ==
    IF n >= Len(var_to_val)
    THEN var_to_val \o [i \in 1..(n + 1 - Len(var_to_val)) |-> NoWeight]
    ELSE var_to_val

set_weight(params, lbl, lo, hi) ==
    [params EXCEPT !.var_to_val =
        [pushed(@, lbl) EXCEPT ![lbl + 1] = SomeWeight(<<lo, hi>>)]]

\* the slot of the label is out of bounds, or None
unset(params, label) ==
    \/ label >= Len(params.var_to_val)
    \/ params.var_to_val[label + 1] = NoWeight

\* get_var_weight that falls back on (zero, one) for a label without weight
get_var_weight_or(params, label) ==
    IF unset(params, label) THEN Got(<<params.zero, params.one>>)
    ELSE Got(params.var_to_val[label + 1][1])

\* self.var_to_val[label.value_usize()].as_ref().unwrap()
get_var_weight(params, label) ==
    IF unset(params, label) THEN Aborted
    ELSE Got(params.var_to_val[label + 1][1])

\* prod * the weight of the literal lit = (label, polarity)
weighed(prod, w, lit) ==
    IF prod.panic \/ w.panic THEN Aborted
    ELSE Got(times(prod.v, IF lit[2] THEN w.v[2] ELSE w.v[1]))

\* get_weight: the product of the weights of the literals of assgn
RECURSIVE get_weight_from(_, _, _)
get_weight_from(params, assgn, prod) ==
    IF assgn = <<>> THEN prod
    ELSE get_weight_from(params, Tail(assgn),
                         weighed(prod, get_var_weight(params, assgn[1][1]), assgn[1]))

get_weight(params, assgn) == get_weight_from(params, assgn, Got(params.one))

\* the weights of params as weighted_sample reads them with var_weight
weights_of(params) ==
    [v \in {w \in Labels : ~unset(params, w)} |-> params.var_to_val[v + 1][1]]

\* weighted_sample with params: the walk reads the weight of every variable
\* below ptr, and panics at the first one that has none
weighted_sample_with(m, ptr, params, coin) ==
    IF \E v \in Support(m.nodes, ptr) : unset(params, v)
    THEN Sample([m EXCEPT !.panic = TRUE], ptr, 0, 1)
    ELSE weighted_sample(m, ptr, weights_of(params), coin)

\* HashMap<VarLabel, (T, T)>: the maps of some labels to weights
HashMaps == UNION {[S -> WeightPairs] : S \in SUBSET Labels}

\* the WmcParams the client holds
params == last.alt

\* a call on the WmcParams that returned res and left the parameters as after
Held(op, lbl, val, res, after) ==
    /\ last' = [Call(op, PtrFalse, PtrFalse, PtrFalse, lbl, val, res) EXCEPT !.alt = after]
    /\ UNCHANGED <<nodes, scratch, apply_table, order, time_limit, lossy, handles>>

\* a counted call on the WmcParams
Asked(op, lbl, val, res, after) == Held(op, lbl, val, res, after) /\ nops' = nops + 1

\* a constructor call
Made(op, val, res, after) == Held(op, 0, val, res, after) /\ UNCHANGED nops

\* a WmcParams is constructed once, before the calls on it
CanConstruct == nops = 0 /\ last.op \in {"new", "compile_cnf"}

\* the last call was one on a WmcParams, which the client still holds
HasParams ==
    last.op \in {"new_params", "new_with_default", "set_weight", "get_var_weight", "get_weight"}

CanAsk == nops < MaxOps /\ last.r # Aborted /\ HasParams

NewParams ==
    /\ CanConstruct
    /\ Made("new_params", FALSE, Got(new_params(0, One)), new_params(0, One))

\* the constructor returned res, or panicked and left no WmcParams
Constructed(res, var_to_val) ==
    Made("new_with_default", var_to_val, res, IF res.panic THEN Aborted ELSE res.v)

NewWithDefault ==
    /\ CanConstruct
    /\ \E var_to_val \in HashMaps : Constructed(new_with_default(0, One, var_to_val), var_to_val)

SetWeight ==
    /\ CanAsk
    /\ \E lbl \in Labels, w \in WeightPairs :
        Asked("set_weight", lbl, w, params, set_weight(params, lbl, w[1], w[2]))

GetVarWeight ==
    /\ CanAsk
    /\ \E label \in Labels :
        Asked("get_var_weight", label, FALSE, get_var_weight(params, label), params)

\* the literals an assignment is made of
Literals == {<<v, b>> : v \in Labels, b \in BOOLEAN}

GetWeight ==
    /\ CanAsk
    /\ \E assgn \in {<<l>> : l \in Literals}
                        \cup {q \in {<<l, k>> : l \in Literals, k \in Literals} : q[1][1] < q[2][1]} :
        Asked("get_weight", 0, assgn, get_weight(params, assgn), params)

\* weighted_sample(a, params) ends the run
SampledWith(s, a) ==
    /\ Returns(s.m, [Call("weighted_sample", a, PtrFalse, PtrFalse, 0, FALSE, s.r)
                        EXCEPT !.alt = params])
    /\ nops' = MaxOps + 1

SampleWith ==
    /\ nops <= MaxOps /\ last.r # Aborted /\ HasParams
    /\ \E a \in Operands, coin \in {[v \in Labels |-> b] : b \in BOOLEAN} :
        SampledWith(weighted_sample_with(Manager, a, params, coin), a)

\* the BDD of one clause is built before the WmcParams
CompileFirst ==
    /\ Fresh
    /\ last.op = "new"
    /\ \E a \in Assignments :
        Compiled(compile_cnf(Manager, {a}, 0), compile_cnf(Reference, {a}, 0).r)

NextParams ==
    \/ CompileFirst
    \/ NewParams
    \/ NewWithDefault
    \/ SetWeight
    \/ GetVarWeight
    \/ GetWeight
    \/ SampleWith

SpecParams == Init /\ [][NextParams]_vars

\* C22: precondition violations abort: weighted_sample panics on the False
\* pointer, and get_var_weight and get_weight panic on a label whose slot is
\* None or beyond the stored vector; none of them returns a value then.
C22_Panics ==
    /\ last.op = "weighted_sample" =>
        ~is_false(last.f) /\ \A v \in Support(nodes, last.f) : ~unset(last.alt, v)
    /\ last.op = "get_var_weight" /\ unset(last.alt, last.lbl) => last.r = Aborted
    /\ last.op = "get_weight" /\ (\E i \in 1..Len(last.val) : unset(last.alt, last.val[i][1]))
        => last.r = Aborted

\* get_var_weight panicked on a label whose slot is None, in a vector that
\* holds the weight of a later label
C22_Witness ==
    /\ last.op = "get_var_weight"
    /\ last.r = Aborted
    /\ last.lbl < Len(last.alt.var_to_val)
    /\ ~unset(last.alt, Len(last.alt.var_to_val) - 1)

\* C30: new_with_default(zero, one, m) completes for every map m and stores
\* every entry of it, get_var_weight(l) = m[l] for every key l of m; and
\* set_weight(l, lo, hi) makes get_var_weight(l) return (lo, hi) and leaves
\* the weight of every other label as it was.
C30_StoresAll ==
    /\ last.op = "new_with_default" =>
        /\ ~last.r.panic
        /\ \A l \in DOMAIN last.val : get_var_weight(last.alt, l) = Got(last.val[l])
    /\ last.op = "set_weight" =>
        /\ get_var_weight(last.alt, last.lbl) = Got(last.val)
        /\ \A l \in Labels \ {last.lbl} :
            get_var_weight(last.alt, l) = get_var_weight(last.r, l)

\* ---------------------------------------------------------------- BddApplyTable
\* bdd_cache.rs: the apply cache of the (f, g)-keyed builder, one sub-table
\* per variable. Its BddPtr is a variable label with a table index.
NodePtr(label, idx) == [var |-> label, idx |-> idx]

\* SubTable: a lossy hash table of ApplySlots slots, <<>> where a slot is empty
SubTable_new == [s \in 0..ApplySlots - 1 |-> <<>>]

\* the slot a key hashes to
sub_slot(key) == (key[1].idx + key[2].idx + key[2].var) % ApplySlots

\* SubTable::insert: the entry takes the slot of its hash, whatever was there
sub_insert(sub, key, res) == [sub EXCEPT ![sub_slot(key)] = <<key, res>>]

\* SubTable::get: Some(res) = <<res>> when the slot holds the key, None = <<>>
sub_get(sub, key) ==
    IF sub[sub_slot(key)] # <<>> /\ sub[sub_slot(key)][1] = key
    THEN <<sub[sub_slot(key)][2]>>
    ELSE <<>>

\* BddApplyTable::new(num_vars): a sub-table for every variable
BddApplyTable_new(n) == [v \in 1..n |-> SubTable_new]

\* insert that files the entry under the variable of g
insert_under_g(table, f, g, res) ==
    [table EXCEPT ![g.var + 1] = sub_insert(@, <<f, g>>, res)]

\* BddApplyTable::insert
insert(table, f, g, res) ==
    [table EXCEPT ![f.var + 1] = sub_insert(@, <<f, g>>, res)]

\* BddApplyTable::get
get(table, f, g) == sub_get(table[f.var + 1], <<f, g>>)

\* the pointers of the calls: two nodes of every variable
NodePtrs == {NodePtr(v, i) : v \in 0..NumVars - 1, i \in 0..1}

\* a call on the table that returned res and left the table as after
Cached(op, f, g, res, after) ==
    /\ last' = [Call(op, f, g, PtrFalse, 0, FALSE, res) EXCEPT !.alt = after]
    /\ nops' = nops + 1
    /\ UNCHANGED <<nodes, scratch, apply_table, order, time_limit, lossy, handles>>

TableNew ==
    /\ last.op = "new"
    /\ Cached("BddApplyTable::new", PtrFalse, PtrFalse, <<>>, BddApplyTable_new(NumVars))

HasTable == last.op \in {"BddApplyTable::new", "insert", "get"}

TableInsert ==
    /\ HasTable
    /\ nops <= MaxOps + 1
    /\ \E f \in NodePtrs, g \in NodePtrs, res \in NodePtrs :
        /\ g.var \in {f.var, (f.var + 1) % NumVars}
        /\ res.var = f.var
        /\ Cached("insert", f, g, res, insert(last.alt, f, g, res))

TableGet ==
    /\ HasTable
    /\ nops <= MaxOps + 1
    /\ \E f \in NodePtrs, g \in NodePtrs :
        /\ g.var \in {f.var, (f.var + 1) % NumVars}
        /\ Cached("get", f, g, get(last.alt, f, g), last.alt)

NextApply ==
    \/ TableNew
    \/ TableInsert
    \/ TableGet

SpecApply == Init /\ [][NextApply]_vars

\* C24: immediately after insert(f, g, res), get(f, g) returns Some(res),
\* whatever was inserted before, for every f whose variable is below the
\* num_vars of the table.
C24_RoundTrip ==
    last.op = "insert" => get(last.alt, last.f, last.g) = <<last.r>>

\* the insert wrote the slot that another key of the same sub-table hashes
\* to, and another sub-table holds an entry
C24_Witness ==
    /\ last.op = "insert"
    /\ \E f \in NodePtrs, g \in NodePtrs :
        /\ <<f, g>> # <<last.f, last.g>>
        /\ f.var = last.f.var
        /\ sub_slot(<<f, g>>) = sub_slot(<<last.f, last.g>>)
        /\ get(last.alt, f, g) = <<>>
    /\ \E v \in 1..NumVars : v # last.f.var + 1 /\ last.alt[v] # SubTable_new

\* ---------------------------------------------------------------- recursion of ite
\* ite(f, g, h) ends the run; last.alt is the record of its expansions
Traced(res, f, g, h) == Closing(res, "ite", f, g, h, 0, res.m.trace)

IteTraced ==
    /\ CanClose
    /\ \E f \in handles, g \in Operands, h \in Operands :
        Traced(ite(Manager, f, g, h), f, g, h)

NextDepth ==
    \/ CompileCnf
    \/ Var
    \/ IteTraced

SpecDepth == Init /\ [][NextDepth]_vars

\* the top variable of p, if it has one, is strictly after lbl in the order
After(p, lbl) == is_const(p) \/ lt(order, lbl, nodes[p.node].var)

\* the operands of the two recursive calls of the expansion e are below e.lbl
Descends(e) ==
    \A x \in {e.f, e.g, e.h}, val \in BOOLEAN :
        After(condition_essential(nodes, x, e.lbl, val), e.lbl)

\* the expansions of the last call
Expansions == IF last.op = "ite" THEN last.alt ELSE <<>>

\* C25: the recursion of ite is bounded by the number of variables: every
\* recursive call of ite_helper gets operands whose top variables are
\* strictly after the variable expanded on, no expansion is deeper on the
\* stack than num_vars, and with the AllIteTable and no time limit no
\* normalized triple is expanded twice, nor one that the cache already held.
C25_Bounded ==
    /\ [](\A i \in DOMAIN Expansions :
            /\ Descends(Expansions[i])
            /\ Expansions[i].depth <= num_vars
            /\ \A j \in DOMAIN Expansions : Expansions[i].key = Expansions[j].key => i = j)
    /\ [][\A i \in DOMAIN Expansions' : Expansions'[i].key \notin DOMAIN apply_table]_vars

\* an ite call made three expansions or more, one of them below another,
\* with operands of three different top variables
C25_Witness ==
    /\ last.op = "ite"
    /\ Len(last.alt) >= 3
    /\ \E i \in DOMAIN last.alt : last.alt[i].depth >= 2
    /\ ~is_const(last.f) /\ ~is_const(last.g) /\ ~is_const(last.h)
    /\ Cardinality({nodes[p.node].var : p \in {last.f, last.g, last.h}}) = 3

\* ---------------------------------------------------------------- condition and negate
\* condition(a, lbl, value) returned first; then condition(negate(a), lbl, value)
cond_negated(first, second) ==
    [m |-> second.m, r |-> first.r, alt |-> second.r, visits |-> first.m.visits]

cond_then_negated(first, a, lbl, value) ==
    cond_negated(first, condition(first.m, negate(a), lbl, value))

\* last.alt keeps the result on negate(a) and the record of the walk over a
Conditioned(both, a, lbl, value) ==
    /\ Returns(both.m, [Call("condition", a, PtrFalse, PtrFalse, lbl, value, both.r)
                            EXCEPT !.alt = [r |-> both.alt, visits |-> both.visits]])
    /\ nops' = MaxOps

ConditionBoth ==
    /\ CanCall
    /\ \E a \in handles, v \in Labels, val \in BOOLEAN :
        Conditioned(cond_then_negated(condition(Manager, a, v, val), a, v, val), a, v, val)

NextNeg ==
    \/ CompileCnf
    \/ ConditionBoth

SpecNeg == InitWide /\ [][NextNeg]_vars

\* the walk returned results of one function on the node of x and y
SameParity(x, y) == y[2] = IF x[1] = y[1] THEN x[2] ELSE neg(x[2])

\* C26: condition(negate(a), v, x) is negate(condition(a, v, x)), and within
\* one walk the results returned for a node reached through a complement
\* edge and through a regular edge are negations of each other.
C26_Parity ==
    last.op = "condition" =>
        /\ last.alt.r = neg(last.r)
        /\ \A x \in last.alt.visits, y \in last.alt.visits :
            x[1].node = y[1].node => SameParity(x, y)

\* the walk reached a node above the variable through both parities and
\* returned for it a BDD that is not the node itself
C26_Witness ==
    /\ last.op = "condition"
    /\ ~is_const(last.r)
    /\ \E x \in last.alt.visits, y \in last.alt.visits :
        /\ x[1] = neg(y[1])
        /\ x[1] # last.f
        /\ y[1] # last.f
        /\ x[2] # x[1]
        /\ ~is_const(x[2])

\* ---------------------------------------------------------------- sampled paths
\* path is the conjunction of the literals of a root-to-True path of bdd:
\* node by node it decides the variable of bdd, and its other child is False
RECURSIVE FollowsPath(_, _, _)
FollowsPath(ns, path, bdd) ==
    IF is_true(path) THEN is_true(bdd)
    ELSE /\ ~is_const(path)
         /\ ~is_const(bdd)
         /\ ns[path.node].var = ns[bdd.node].var
         /\ \/ is_false(low(ns, path)) /\ FollowsPath(ns, high(ns, path), high(ns, bdd))
            \/ is_false(high(ns, path)) /\ FollowsPath(ns, low(ns, path), low(ns, bdd))

\* C27: with positive weights weighted_sample of a satisfiable BDD does not
\* reach the False pointer, and the BDD it returns is not False, is the
\* conjunction of the literals chosen along one root-to-True path of the
\* input, and implies the input: and(path_bdd, bdd) is the pointer path_bdd.
C27_SampledPath ==
    /\ last.op # "panic"
    /\ last.op = "weighted_sample" =>
        /\ ~is_false(last.r)
        /\ FollowsPath(nodes, last.r, last.f)
        /\ and(Manager, last.r, last.f).r = last.r

\* the sample decides every variable, on a BDD of three models or more one
\* of whose nodes has False for a child
C27_Witness ==
    /\ last.op = "weighted_sample"
    /\ Cardinality(Support(nodes, last.r)) = num_vars
    /\ Cardinality(Sem(nodes, last.r)) = 1
    /\ Cardinality(Sem(nodes, last.f)) >= 3
    /\ \E i \in reachable(nodes, last.f) :
        is_false(low(nodes, Reg(i))) \/ is_false(high(nodes, Reg(i)))

\* ---------------------------------------------------------------- top-k boundaries
\* C28: top_k_paths(bdd, 0, wmc) is False; for k at least the number of
\* root-to-True paths of bdd the result is the pointer bdd; and for every k
\* the result implies bdd: and(result, bdd) is the pointer result.
C28_Boundary ==
    last.op = "top_k_paths" =>
        /\ last.lbl = 0 => is_false(last.r)
        /\ last.lbl >= Cardinality(PathsOf(nodes, last.f, last.alt)) => last.r = last.f
        /\ and(Manager, last.r, last.f).r = last.r

\* ---------------------------------------------------------------- partial models
\* no node of the manager has anything in its scratch
Blank(m) == \A i \in 1..Len(m.scratch) : m.scratch[i] = NoScratch

\* condition(condition(a, u, x), v, y); clean tells that both calls left the
\* scratch empty, which is how the next call found it
conditioned_twice(c1, c2) ==
    [m |-> c2.m, r |-> c2.r, clean |-> Blank(c1.m) /\ Blank(c2.m)]

condition_then(c1, v, y) == conditioned_twice(c1, condition(c1.m, c1.r, v, y))

condition_pair(m, a, u, x, v, y) == condition_then(condition(m, a, u, x), v, y)

\* PartialModel::assignment_iter: the assignments in the order of the labels
partial_model(u, x, v, y) ==
    IF u < v THEN <<<<u, x>>, <<v, y>>>> ELSE <<<<v, y>>, <<u, x>>>>

\* the result cm of condition_model beside those of the two orders
model_beside(uv, vu, cm) ==
    [m |-> cm.m, r |-> cm.r,
     alt |-> [uv |-> uv.r, vu |-> vu.r, clean |-> uv.clean /\ vu.clean /\ Blank(vu.m)]]

model_after(uv, vu, a, pm) == model_beside(uv, vu, condition_model(vu.m, a, pm))

swapped_after(uv, a, u, x, v, y) ==
    model_after(uv, condition_pair(uv.m, a, v, y, u, x), a, partial_model(u, x, v, y))

\* the two orders of conditioning a on u = x and v = y, then condition_model
condition_swapped(m, a, u, x, v, y) ==
    swapped_after(condition_pair(m, a, u, x, v, y), a, u, x, v, y)

Swapped(both, a, pm) ==
    /\ Returns(both.m, [Call("condition_model", a, PtrFalse, PtrFalse, 0, pm, both.r)
                            EXCEPT !.alt = both.alt])
    /\ nops' = MaxOps

ConditionSwap ==
    /\ CanCall
    /\ \E a \in handles, u \in Labels, v \in Labels, x \in BOOLEAN, y \in BOOLEAN :
        /\ u # v
        /\ Swapped(condition_swapped(Manager, a, u, x, v, y), a, <<<<u, x>>, <<v, y>>>>)

NextModel ==
    \/ CompileCnf
    \/ Negate
    \/ ConditionSwap

SpecModel == Init /\ [][NextModel]_vars

\* C29: condition_model(bdd, m) is the result of conditioning bdd on the
\* assignments of m one after another, in either order:
\* condition(condition(a, u, x), v, y) = condition(condition(a, v, y), u, x)
\* for distinct u and v, every condition call finding the scratch empty.
C29_ModelOrder ==
    last.op = "condition_model" =>
        /\ last.r = last.alt.uv
        /\ last.alt.uv = last.alt.vu
        /\ last.alt.clean
        /\ Sem(nodes, last.r) =
            Cofactor(Cofactor(Sem(nodes, last.f), last.val[1][1], last.val[1][2]),
                     last.val[2][1], last.val[2][2])

\* a BDD of three variables conditioned first on the later and then on the
\* earlier of two of them, with a result that is not a constant
C29_Witness ==
    /\ last.op = "condition_model"
    /\ Cardinality(Support(nodes, last.f)) = num_vars
    /\ lt(order, last.val[2][1], last.val[1][1])
    /\ ~is_const(last.r)
    /\ is_neg(last.f)
====
